---- MODULE Spec2Model ----
(***************************************************************************)
(* Voice-controlled sandbox shell: the intent parser (src/src/parser.py),  *)
(* the sandbox path resolver (src/src/state.py), the executor primitives   *)
(* (src/src/executor.py), the dispatcher (src/src/commands.py) and the     *)
(* delete-confirmation state machine (src/src/main.py).                    *)
(*                                                                         *)
(* Texts are sequences of chunks.  A chunk is a maximal run of characters  *)
(* of one kind: a run of word characters [A-Za-z0-9_.-] ("notes.txt",      *)
(* "..", "3"), a run of blanks (" "), one "/", one "\", one quote, or a    *)
(* run of other punctuation ("!").  The regular expressions of the parser  *)
(* are transcribed node for node over chunks and run by a backtracking     *)
(* matcher that returns the matches in the priority order of Python's re.  *)
(*                                                                         *)
(* Paths are sequences of component names from the filesystem root <<>>.   *)
(***************************************************************************)
EXTENDS Naturals, Sequences, FiniteSets, TLC

VARIABLES
    fs,          \* the filesystem: existing absolute path -> "dir" | "link" | a file's content
                 \* ("file": the empty file; any other string: a file that holds that text)
    cwd,         \* ShellState.cwd
    sm,          \* ShellStateMachine.state
    pending,     \* ShellStateMachine.pending_payload
    running,     \* VoiceShell.running
    last,        \* what the last process_command call did
    ptext,       \* parser check: the text handed to parse
    pres,        \* parser check: the intent parse returned
    rin,         \* resolver check: the filesystem, cwd and name handed to resolve_in_cwd
    rout,        \* resolver check: what resolve_in_cwd did
    os_name,     \* platform.system() of the machine: "Windows", or "Linux" for any other
    log,         \* the rows of logs.csv below the header, oldest first
    call,        \* executor check: the call drawn, with the filesystem and cwd it runs in
    result,      \* executor check: what the call did
    listening_thread_active,   \* VoiceShell.listening_thread_active
    stop_requested,            \* VoiceShell.stop_requested
    listen_stop_event,         \* VoiceShell.listen_stop_event: TRUE when set
    workers,     \* the process_voice_input threads started so far, each with its position
    ui_thread,   \* the UI thread: idle in the event loop, or inside process_command
    listen_reply \* what the last handle_listen_request did

shell == <<fs, cwd, sm, pending, running, last>>
checks == <<ptext, pres, rin, rout>>
exec == <<log, call, result>>
voice == <<listening_thread_active, stop_requested, listen_stop_event, workers, ui_thread,
           listen_reply>>
vars == <<fs, cwd, sm, pending, running, last, ptext, pres, rin, rout, os_name, log, call, result,
          listening_thread_active, stop_requested, listen_stop_event, workers, ui_thread,
          listen_reply>>

-----------------------------------------------------------------------------
(* Chunks and their character classes.                                     *)

SP == " "
SpaceChunks == {SP}
SlashChunks == {"/"}
BackslashChunks == {"\\"}
DQuoteChunks == {"\""}
SQuoteChunks == {"'"}
OtherChunks == {"!", "?"}
DigitChunks == {"0", "3", "20"}

\* The class of a chunk: which character classes of the patterns accept it.
ChunkClass(c) ==
    IF c \in SpaceChunks THEN "space"
    ELSE IF c \in SlashChunks THEN "slash"
    ELSE IF c \in BackslashChunks THEN "bslash"
    ELSE IF c \in DQuoteChunks THEN "dquote"
    ELSE IF c \in SQuoteChunks THEN "squote"
    ELSE IF c \in OtherChunks THEN "other"
    ELSE IF c \in DigitChunks THEN "digits"
    ELSE "word"

AllClasses == {"space", "slash", "bslash", "dquote", "squote", "other", "digits", "word"}

\* str.lower() on a chunk: the chunks of the vocabulary that hold capitals.
UpperChunks == {"YES", "Yes", "Y", "NO", "A", "EXIT", "Delete", "Create", "File"}
LowerChunk(c) ==
    CASE c = "YES" -> "yes"
      [] c = "Yes" -> "yes"
      [] c = "Y" -> "y"
      [] c = "NO" -> "no"
      [] c = "A" -> "a"
      [] c = "EXIT" -> "exit"
      [] c = "Delete" -> "delete"
      [] c = "Create" -> "create"
      [] c = "File" -> "file"
      [] OTHER -> c

\* str.lower()
Lower(text) == [i \in 1..Len(text) |-> LowerChunk(text[i])]

RECURSIVE LStrip(_)
LStrip(text) ==
    IF text # <<>> /\ ChunkClass(Head(text)) = "space" THEN LStrip(Tail(text)) ELSE text

RECURSIVE RStrip(_)
RStrip(text) ==
    IF text # <<>> /\ ChunkClass(text[Len(text)]) = "space"
    THEN RStrip(SubSeq(text, 1, Len(text) - 1))
    ELSE text

\* str.strip()
Strip(text) == RStrip(LStrip(text))

-----------------------------------------------------------------------------
(* Regular expressions over chunks.                                        *)

Tok(w) == [t |-> "tok", w |-> w]            \* a literal word
Cls(c) == [t |-> "cls", c |-> c]            \* one chunk of a character class
Cat(rs) == [t |-> "cat", rs |-> rs]         \* concatenation
Alt(rs) == [t |-> "alt", rs |-> rs]         \* a|b, left first
Opt(r) == [t |-> "opt", r |-> r]            \* r?  (greedy)
Plus(r) == [t |-> "plus", r |-> r]          \* r+  (greedy)
Lazy(r) == [t |-> "lazy", r |-> r]          \* r+? (lazy)
Cap(n, r) == [t |-> "cap", n |-> n, r |-> r] \* (?P<n>r)
Bol == [t |-> "bol"]                        \* ^
Eol == [t |-> "eol"]                        \* $

S1 == Plus(Cls({"space"}))                  \* \s+
S0 == Opt(S1)                               \* \s*

\* w1\s+w2\s+...\s+wn
RECURSIVE PhraseFrom(_, _)
PhraseFrom(ws, k) ==
    IF k = Len(ws) THEN <<Tok(ws[k])>> ELSE <<Tok(ws[k]), S1>> \o PhraseFrom(ws, k + 1)
Phrase(ws) == Cat(PhraseFrom(ws, 1))

NameChars == Plus(Cls({"word", "digits", "space"}))                     \* [\w\-. ]+
PathChars == Plus(Cls({"word", "digits", "space", "slash", "bslash"}))  \* [\w\-. /\\]+
Digits == Plus(Cls({"digits"}))                                         \* \d+
AnyLazy == Lazy(Cls(AllClasses))                                        \* .+?
Please == Opt(Cat(<<Tok("please"), S1>>))                               \* (?:please\s+)?

NoCaps == <<>>

\* re's backtracking: the matches of r in u from chunk i, best first.
RECURSIVE Run(_, _, _, _), RunCat(_, _, _, _, _), CatRest(_, _, _, _, _),
          RunAlt(_, _, _, _, _), Repeat(_, _, _, _, _), Capture(_, _, _, _)
Run(r, u, i, caps) ==
    CASE r.t = "tok" ->
            IF i <= Len(u) /\ u[i] = r.w THEN <<[pos |-> i + 1, caps |-> caps]>> ELSE <<>>
      [] r.t = "cls" ->
            IF i <= Len(u) /\ ChunkClass(u[i]) \in r.c
            THEN <<[pos |-> i + 1, caps |-> caps]>> ELSE <<>>
      [] r.t = "bol" -> IF i = 1 THEN <<[pos |-> i, caps |-> caps]>> ELSE <<>>
      [] r.t = "eol" -> IF i = Len(u) + 1 THEN <<[pos |-> i, caps |-> caps]>> ELSE <<>>
      [] r.t = "cat" -> RunCat(r.rs, 1, u, i, caps)
      [] r.t = "alt" -> RunAlt(r.rs, 1, u, i, caps)
      [] r.t = "opt" -> Run(r.r, u, i, caps) \o <<[pos |-> i, caps |-> caps]>>
      [] r.t = "plus" -> Repeat(r, Run(r.r, u, i, caps), 1, u, TRUE)
      [] r.t = "lazy" -> Repeat(r, Run(r.r, u, i, caps), 1, u, FALSE)
      [] r.t = "cap" -> Capture(r.n, i, Run(r.r, u, i, caps), 1)

RunCat(rs, k, u, i, caps) ==
    IF k > Len(rs) THEN <<[pos |-> i, caps |-> caps]>>
    ELSE CatRest(rs, k, u, Run(rs[k], u, i, caps), 1)

CatRest(rs, k, u, ms, j) ==
    IF j > Len(ms) THEN <<>>
    ELSE RunCat(rs, k + 1, u, ms[j].pos, ms[j].caps) \o CatRest(rs, k, u, ms, j + 1)

RunAlt(rs, k, u, i, caps) ==
    IF k > Len(rs) THEN <<>>
    ELSE Run(rs[k], u, i, caps) \o RunAlt(rs, k + 1, u, i, caps)

\* one more repetition after each match of the body: first when greedy, last when lazy
Repeat(r, ms, j, u, greedy) ==
    IF j > Len(ms) THEN <<>>
    ELSE (IF greedy THEN Run(r, u, ms[j].pos, ms[j].caps) \o <<ms[j]>>
                    ELSE <<ms[j]>> \o Run(r, u, ms[j].pos, ms[j].caps))
         \o Repeat(r, ms, j + 1, u, greedy)

Capture(n, i, ms, j) ==
    IF j > Len(ms) THEN <<>>
    ELSE <<[pos |-> ms[j].pos, caps |-> (n :> <<i, ms[j].pos - 1>>) @@ ms[j].caps]>>
         \o Capture(n, i, ms, j + 1)

\* re.match(pattern, text): the first match from the start of the text, or NoMatch
NoMatch == [ok |-> FALSE]
ReMatch(r, u) ==
    LET ms == Run(r, u, 1, NoCaps)
    IN IF ms = <<>> THEN NoMatch
       ELSE [ok |-> TRUE, caps |-> ms[1].caps, u |-> u, stop |-> ms[1].pos]

\* match.group(n): the captured text, <<>> standing for None as well
Group(m, n) ==
    IF n \in DOMAIN m.caps THEN SubSeq(m.u, m.caps[n][1], m.caps[n][2]) ELSE <<>>

-----------------------------------------------------------------------------
(* CommandParser.__init__: the whitelist and the ordered pattern list.     *)

\* CommandParser.ALLOWED_APPS
ParserApps == [calculator |-> "calc", calc |-> "calc", notepad |-> "notepad",
               paint |-> "mspaint", browser |-> "explorer", explorer |-> "explorer"]

Head0 == <<Bol, S0, Please>>         \* ^\s*(?:please\s+)?
Tail0 == <<S0, Eol>>                 \* \s*$
AnyOf(ws) == Alt([k \in 1..Len(ws) |-> IF Len(ws[k]) = 1 THEN Tok(ws[k][1]) ELSE Phrase(ws[k])])

PatHelp ==
    Cat(Head0 \o <<Opt(Cat(<<Tok("show"), S1>>)),
                   AnyOf(<< <<"help">>, <<"what", "can", "you", "do">>,
                            <<"show", "available", "commands">> >>)>> \o Tail0)

PatExit ==
    Cat(Head0 \o <<AnyOf(<< <<"exit">>, <<"quit">>, <<"goodbye">>, <<"bye">> >>)>> \o Tail0)

\* The top-level | splits the pattern in two: ^...(files?|contents?) with no $,
\* and (show me the contents?|what files? are here)\s*$ with no ^.
PatList ==
    Alt(<<Cat(Head0 \o <<AnyOf(<< <<"show">>, <<"list">> >>), Opt(Cat(<<S1, Tok("all")>>)), S1,
                         AnyOf(<< <<"files">>, <<"file">>, <<"contents">>, <<"content">> >>)>>),
          Cat(<<AnyOf(<< <<"show", "me", "the", "contents">>, <<"show", "me", "the", "content">>,
                         <<"what", "files", "are", "here">>, <<"what", "file", "are", "here">> >>)>>
              \o Tail0)>>)

CreateHead ==
    <<AnyOf(<< <<"create">>, <<"make">> >>), Opt(Cat(<<S1, Tok("a")>>)), Opt(Cat(<<S1, Tok("new")>>)), S1>>

PatMkdir ==
    Cat(Head0 \o CreateHead
        \o <<AnyOf(<< <<"folder">>, <<"directory">> >>), Opt(Cat(<<S1, Tok("called")>>)), S1,
             Cap("name", NameChars)>> \o Tail0)

PatMkfile ==
    Cat(Head0 \o CreateHead
        \o <<Tok("file"), Opt(Cat(<<S1, Tok("called")>>)), S1, Cap("name", NameChars)>> \o Tail0)

PatDelete ==
    Cat(Head0 \o <<AnyOf(<< <<"delete">>, <<"remove">> >>), S1, Opt(Cat(<<Tok("the"), S1>>)),
                   Cap("kind", AnyOf(<< <<"file">>, <<"folder">>, <<"directory">> >>)), S1,
                   Opt(Cat(<<Tok("called"), S1>>)), Cap("name", NameChars)>> \o Tail0)

PatCd ==
    Cat(Head0 \o <<AnyOf(<< <<"change", "directory", "to">>, <<"cd", "to">>, <<"go", "to">>,
                            <<"move", "to">>, <<"switch", "to", "directory">> >>),
                   Opt(Cat(<<S1, Tok("folder")>>)), S1, Cap("path", PathChars)>> \o Tail0)

PatBack ==
    Cat(Head0 \o <<AnyOf(<< <<"go", "back">>, <<"go", "up">>, <<"back">> >>)>> \o Tail0)

PatPwd ==
    Cat(Head0 \o <<Alt(<<Phrase(<<"where", "am", "i">>),
                         Cat(<<Tok("show"), S1, Opt(Cat(<<Tok("current"), S1>>)),
                               Opt(Cat(<<Tok("working"), S1>>)), Tok("directory")>>),
                         Phrase(<<"what", "folder", "am", "i", "in">>),
                         Phrase(<<"current", "location">>),
                         Phrase(<<"could", "you", "show", "me", "where", "i", "am">>)>>)>>
        \o Tail0)

PatOpenApp ==
    Cat(<<Bol, S0, Opt(Alt(<<Cat(<<Tok("please"), S1>>),
                             Cat(<<Phrase(<<"would", "you", "kindly">>), S1>>)>>)),
          AnyOf(<< <<"open">>, <<"launch">>, <<"start">> >>), Opt(Cat(<<S1, Tok("the")>>)), S1,
          Cap("app", AnyOf(<< <<"calculator">>, <<"calc">>, <<"notepad">>, <<"paint">>,
                              <<"browser">>, <<"explorer">> >>))>> \o Tail0)

PatOpen == Cat(Head0 \o <<Tok("open"), S1, Cap("name", PathChars)>> \o Tail0)

PatSearch ==
    Cat(Head0 \o <<AnyOf(<< <<"search">>, <<"find">>, <<"look", "for">> >>), S1,
                   Cap("query", NameChars)>> \o Tail0)

PatRename ==
    Cat(Head0 \o <<Tok("rename"), S1, Cap("old", NameChars), S1,
                   AnyOf(<< <<"to">>, <<"as">> >>), S1, Cap("new", NameChars)>> \o Tail0)

PatHistory ==
    Cat(Head0 \o <<Tok("history"), Opt(Cat(<<S1, Cap("count", Digits)>>))>> \o Tail0)

PatCopy ==
    Cat(Head0 \o <<Tok("copy"), S1, Cap("src", PathChars), S1,
                   AnyOf(<< <<"to">>, <<"into">> >>), S1, Cap("dst", PathChars)>> \o Tail0)

PatMove ==
    Cat(Head0 \o <<Tok("move"), S1, Cap("src", PathChars), S1,
                   AnyOf(<< <<"to">>, <<"into">> >>), S1, Cap("dst", PathChars)>> \o Tail0)

PatRead ==
    Cat(Head0 \o <<AnyOf(<< <<"read">>, <<"show">>, <<"display">> >>), S1, Tok("file"), S1,
                   Cap("name", PathChars)>> \o Tail0)

AppendWith(q) ==
    Cat(Head0 \o <<AnyOf(<< <<"append">>, <<"write">> >>), S1, Tok(q), Cap("text", AnyLazy), Tok(q),
                   S1, AnyOf(<< <<"to">>, <<"into">> >>), S1, Tok("file"), S1,
                   Cap("name", PathChars)>> \o Tail0)
PatAppendDQ == AppendWith("\"")
PatAppendSQ == AppendWith("'")

GrepWith(q) ==
    Cat(Head0 \o <<AnyOf(<< <<"grep">>, <<"find", "in", "files">>, <<"search", "in", "files">> >>),
                   S1, Tok(q), Cap("query", AnyLazy), Tok(q)>> \o Tail0)
PatGrepDQ == GrepWith("\"")
PatGrepSQ == GrepWith("'")

PatSize ==
    Cat(Head0 \o <<AnyOf(<< <<"size", "of">>, <<"how", "big", "is">> >>), S1,
                   Cap("name", PathChars)>> \o Tail0)

PatTree == Cat(Head0 \o <<Tok("tree"), Opt(Cat(<<S1, Cap("depth", Digits)>>))>> \o Tail0)

PatTouch == Cat(Head0 \o <<Tok("touch"), S1, Cap("name", PathChars)>> \o Tail0)

PatClearHistory == Cat(Head0 \o <<Phrase(<<"clear", "history">>)>> \o Tail0)

PatRecents ==
    Cat(Head0 \o <<Phrase(<<"recent", "files">>), Opt(Cat(<<S1, Cap("count", Digits)>>))>> \o Tail0)

PatStats == Cat(Head0 \o <<Tok("stats"), Opt(Cat(<<S1, Tok("here")>>))>> \o Tail0)

PatOpenFile ==
    Cat(Head0 \o <<Tok("open"), S1, Tok("file"), S1, Cap("name", PathChars)>> \o Tail0)

Rule(re, h) == [re |-> re, handler |-> h]

\* the list with the MOVE rule placed ahead of the two CD rules
patterns_move_first ==
    << Rule(PatHelp, "_handle_help"),
       Rule(PatExit, "_handle_exit"),
       Rule(PatList, "_handle_list"),
       Rule(PatMkdir, "_handle_mkdir"),
       Rule(PatMkfile, "_handle_mkfile"),
       Rule(PatDelete, "_handle_delete"),
       Rule(PatMove, "_handle_move"),
       Rule(PatCd, "_handle_cd"),
       Rule(PatBack, "_handle_back"),
       Rule(PatPwd, "_handle_pwd"),
       Rule(PatOpenApp, "_handle_open_app"),
       Rule(PatOpen, "_handle_open_file"),
       Rule(PatSearch, "_handle_search"),
       Rule(PatRename, "_handle_rename"),
       Rule(PatHistory, "_handle_history"),
       Rule(PatCopy, "_handle_copy"),
       Rule(PatRead, "_handle_read"),
       Rule(PatAppendDQ, "_handle_append"),
       Rule(PatAppendSQ, "_handle_append"),
       Rule(PatGrepDQ, "_handle_grep"),
       Rule(PatGrepSQ, "_handle_grep"),
       Rule(PatSize, "_handle_size"),
       Rule(PatTree, "_handle_tree"),
       Rule(PatTouch, "_handle_touch"),
       Rule(PatClearHistory, "_handle_clear_history"),
       Rule(PatRecents, "_handle_recents"),
       Rule(PatStats, "_handle_stats"),
       Rule(PatOpenFile, "_handle_open_file") >>

\* self.patterns, in the order of the list
patterns ==
    << Rule(PatHelp, "_handle_help"),
       Rule(PatExit, "_handle_exit"),
       Rule(PatList, "_handle_list"),
       Rule(PatMkdir, "_handle_mkdir"),
       Rule(PatMkfile, "_handle_mkfile"),
       Rule(PatDelete, "_handle_delete"),
       Rule(PatCd, "_handle_cd"),
       Rule(PatBack, "_handle_back"),
       Rule(PatPwd, "_handle_pwd"),
       Rule(PatOpenApp, "_handle_open_app"),
       Rule(PatOpen, "_handle_open_file"),
       Rule(PatSearch, "_handle_search"),
       Rule(PatRename, "_handle_rename"),
       Rule(PatHistory, "_handle_history"),
       Rule(PatCopy, "_handle_copy"),
       Rule(PatMove, "_handle_move"),
       Rule(PatRead, "_handle_read"),
       Rule(PatAppendDQ, "_handle_append"),
       Rule(PatAppendSQ, "_handle_append"),
       Rule(PatGrepDQ, "_handle_grep"),
       Rule(PatGrepSQ, "_handle_grep"),
       Rule(PatSize, "_handle_size"),
       Rule(PatTree, "_handle_tree"),
       Rule(PatTouch, "_handle_touch"),
       Rule(PatClearHistory, "_handle_clear_history"),
       Rule(PatRecents, "_handle_recents"),
       Rule(PatStats, "_handle_stats"),
       Rule(PatOpenFile, "_handle_open_file") >>

-----------------------------------------------------------------------------
(* CommandParser's handlers and parse.                                     *)

\* int() of a captured digit run
IntOf(ds) ==
    CASE ds = <<"0">> -> 0
      [] ds = <<"3">> -> 3
      [] ds = <<"20">> -> 20

handle_help(m) == [type |-> "HELP"]
handle_exit(m) == [type |-> "EXIT"]
handle_list(m) == [type |-> "LIST"]
handle_mkdir(m) == [type |-> "MKDIR", name |-> Strip(Group(m, "name"))]
handle_mkfile(m) == [type |-> "MKFILE", name |-> Strip(Group(m, "name"))]
handle_delete(m) ==
    [type |-> "DELETE",
     kind |-> IF Group(m, "kind") \in {<<"folder">>, <<"directory">>} THEN "folder" ELSE "file",
     name |-> Strip(Group(m, "name"))]
handle_cd(m) == [type |-> "CD", path |-> Strip(Group(m, "path"))]
handle_back(m) == [type |-> "CD", path |-> <<"..">>]
handle_pwd(m) == [type |-> "PWD"]
handle_open_app(m) ==
    LET app == Strip(Group(m, "app"))
    IN [type |-> "OPEN_APP",
        app |-> IF Len(app) = 1 /\ app[1] \in DOMAIN ParserApps THEN <<ParserApps[app[1]]>> ELSE app]
handle_search(m) == [type |-> "SEARCH", query |-> Strip(Group(m, "query"))]
handle_rename(m) ==
    [type |-> "RENAME", old |-> Strip(Group(m, "old")), new |-> Strip(Group(m, "new"))]
handle_history(m) ==
    [type |-> "HISTORY", count |-> IF Group(m, "count") # <<>> THEN IntOf(Group(m, "count")) ELSE 10]
handle_copy(m) == [type |-> "COPY", src |-> Strip(Group(m, "src")), dst |-> Strip(Group(m, "dst"))]
handle_move(m) == [type |-> "MOVE", src |-> Strip(Group(m, "src")), dst |-> Strip(Group(m, "dst"))]
handle_read(m) == [type |-> "READ", name |-> Strip(Group(m, "name"))]
handle_append(m) ==
    LET text == Group(m, "text")
        quoted == Len(text) >= 2 /\ \/ text[1] = "\"" /\ text[Len(text)] = "\""
                                    \/ text[1] = "'" /\ text[Len(text)] = "'"
    IN [type |-> "APPEND", name |-> Strip(Group(m, "name")),
        text |-> IF quoted THEN SubSeq(text, 2, Len(text) - 1) ELSE text]
handle_grep(m) == [type |-> "GREP", query |-> Strip(Group(m, "query"))]
handle_size(m) == [type |-> "SIZE", name |-> Strip(Group(m, "name"))]
handle_tree(m) ==
    [type |-> "TREE", depth |-> IF Group(m, "depth") # <<>> THEN IntOf(Group(m, "depth")) ELSE 2]
handle_touch(m) == [type |-> "TOUCH", name |-> Strip(Group(m, "name"))]
handle_clear_history(m) == [type |-> "CLEAR_HISTORY"]
handle_recents(m) ==
    [type |-> "RECENTS", count |-> IF Group(m, "count") # <<>> THEN IntOf(Group(m, "count")) ELSE 10]
handle_stats(m) == [type |-> "STATS"]

\* re.sub(r'\bword\b', repl, name): whole words are whole chunks
SubWord(name, word, repl) == [i \in 1..Len(name) |-> IF name[i] = word THEN repl ELSE name[i]]

handle_open_file(m) ==
    LET n0 == Strip(Group(m, "name"))
        n1 == SubWord(n0, "dot", ".")
        n2 == SubWord(n1, "period", ".")
        n3 == SubWord(n2, "underscore", "_")
        n4 == SubWord(n3, "dash", "-")
        n5 == SubWord(n4, "slash", "/")
        n6 == SubWord(n5, "backslash", "\\")
    IN [type |-> "OPEN_FILE", name |-> n6]

\* handler(match)
Call(h, m) ==
    CASE h = "_handle_help" -> handle_help(m)
      [] h = "_handle_exit" -> handle_exit(m)
      [] h = "_handle_list" -> handle_list(m)
      [] h = "_handle_mkdir" -> handle_mkdir(m)
      [] h = "_handle_mkfile" -> handle_mkfile(m)
      [] h = "_handle_delete" -> handle_delete(m)
      [] h = "_handle_cd" -> handle_cd(m)
      [] h = "_handle_back" -> handle_back(m)
      [] h = "_handle_pwd" -> handle_pwd(m)
      [] h = "_handle_open_app" -> handle_open_app(m)
      [] h = "_handle_open_file" -> handle_open_file(m)
      [] h = "_handle_search" -> handle_search(m)
      [] h = "_handle_rename" -> handle_rename(m)
      [] h = "_handle_history" -> handle_history(m)
      [] h = "_handle_copy" -> handle_copy(m)
      [] h = "_handle_move" -> handle_move(m)
      [] h = "_handle_read" -> handle_read(m)
      [] h = "_handle_append" -> handle_append(m)
      [] h = "_handle_grep" -> handle_grep(m)
      [] h = "_handle_size" -> handle_size(m)
      [] h = "_handle_tree" -> handle_tree(m)
      [] h = "_handle_touch" -> handle_touch(m)
      [] h = "_handle_clear_history" -> handle_clear_history(m)
      [] h = "_handle_recents" -> handle_recents(m)
      [] h = "_handle_stats" -> handle_stats(m)

\* the loop of parse: the index of the first pattern that re.match accepts, 0 for none
RECURSIVE FirstMatchFrom(_, _, _)
FirstMatchFrom(ps, t, k) ==
    IF k > Len(ps) THEN 0
    ELSE IF ReMatch(ps[k].re, t).ok THEN k
    ELSE FirstMatchFrom(ps, t, k + 1)

\* text.lower().strip()
Normalize(text) == Strip(Lower(text))

\* CommandParser.parse
parse(text) ==
    IF text = <<>> THEN [type |-> "UNKNOWN", raw |-> text]
    ELSE LET t == Normalize(text)
             k == FirstMatchFrom(patterns, t, 1)
         IN IF k = 0 THEN [type |-> "UNKNOWN", raw |-> t]
            ELSE Call(patterns[k].handler, ReMatch(patterns[k].re, t))

-----------------------------------------------------------------------------
(* The filesystem and the sandbox path resolver (ShellState).              *)

FsRoot == <<>>
base == <<"sb">>                 \* ShellState.base, the resolved sandbox root
OutDir == <<"out">>              \* a directory outside the sandbox
LinkName == "l"                  \* the name of a symbolic link left in the sandbox

FileLinkName == "k"              \* the name of a symbolic link to a file

\* os.readlink: a link points at the outside directory, or at the file in it
LinkTarget(p) == IF p[Len(p)] = FileLinkName THEN Append(OutDir, "a") ELSE OutDir

Kind(f, p) ==
    IF p \notin DOMAIN f THEN "none"
    ELSE IF f[p] \in {"dir", "link"} THEN f[p]
    ELSE "file"
Parent(p) == SubSeq(p, 1, Len(p) - 1)
IsPrefix(p, q) == Len(p) <= Len(q) /\ SubSeq(q, 1, Len(p)) = p

\* str -> the parts pathlib keeps: split at "/", "" and "." dropped, ".." kept
RECURSIVE SplitName(_, _, _)
SplitName(rel, k, cur) ==
    IF k > Len(rel) THEN <<cur>>
    ELSE IF rel[k] = "/" THEN <<cur>> \o SplitName(rel, k + 1, "")
    ELSE SplitName(rel, k + 1, cur \o rel[k])
KeptPart(c) == c # "" /\ c # "."
Parts(rel) == SelectSeq(SplitName(rel, 1, ""), KeptPart)
IsAbs(rel) == rel # <<>> /\ rel[1] = "/"

\* self.cwd / rel
JoinPath(c, rel) == IF IsAbs(rel) THEN Parts(rel) ELSE c \o Parts(rel)

\* posixpath realpath, not strict: ".." pops, a link is replaced by its resolved
\* target, a missing component is kept
RECURSIVE Walk(_, _, _)
Walk(f, path, rest) ==
    IF rest = <<>> THEN path
    ELSE LET name == Head(rest)
             newpath == Append(path, name)
         IN IF name = ".." THEN Walk(f, IF path = <<>> THEN path ELSE Parent(path), Tail(rest))
            ELSE IF Kind(f, newpath) = "link"
                 THEN Walk(f, Walk(f, FsRoot, LinkTarget(newpath)), Tail(rest))
            ELSE Walk(f, newpath, Tail(rest))

\* Path.resolve() of an absolute path
Resolve(f, p) == Walk(f, FsRoot, p)

\* Path.exists / is_dir / is_file: they follow links
Exists(f, p) == Kind(f, Resolve(f, p)) # "none"
IsDir(f, p) == Kind(f, Resolve(f, p)) = "dir"
IsFile(f, p) == Kind(f, Resolve(f, p)) = "file"

\* ShellState.inside_sandbox
inside_sandbox(f, target) == IsPrefix(base, Resolve(f, target))

\* resolve_in_cwd with the escape check made on the joined, not normalized, path
resolve_in_cwd_raw(f, c, rel) ==
    IF rel \in {<<".">>, <<>>} THEN [ok |-> TRUE, path |-> c]
    ELSE [ok |-> IsPrefix(base, JoinPath(c, rel)), path |-> Resolve(f, JoinPath(c, rel))]

\* ShellState.resolve_in_cwd: ok = FALSE stands for the ValueError
resolve_in_cwd(f, c, rel) ==
    IF rel \in {<<".">>, <<>>} THEN [ok |-> TRUE, path |-> c]
    ELSE LET target == Resolve(f, JoinPath(c, rel))
         IN [ok |-> inside_sandbox(f, target), path |-> target]

\* ShellState.change_directory called with a Path: the new cwd
change_directory(f, c, target) ==
    LET new_dir == Resolve(f, target)
    IN IF inside_sandbox(f, new_dir) /\ IsDir(f, new_dir) THEN new_dir ELSE c

-----------------------------------------------------------------------------
(* The executor primitives: each returns the new filesystem, the new       *)
(* current directory and a label for the branch it took.                   *)

NoSpawn == <<>>      \* no process launched

Ret(f, c, res) ==
    [fs |-> f, cwd |-> c, res |-> res, listing |-> {}, out |-> <<>>, spawn |-> NoSpawn]

\* executor.list_files: the names of the entries of cwd ([] on an exception)
list_files(f, c) ==
    IF IsDir(f, c)
    THEN {p[Len(p)] : p \in {q \in DOMAIN f : Len(q) = Len(Resolve(f, c)) + 1
                                               /\ Parent(q) = Resolve(f, c)}}
    ELSE {}

\* os.mkdir / O_CREAT|O_EXCL on a resolved path
CreateError(f, p) ==
    IF p \in DOMAIN f THEN "FileExistsError"
    ELSE IF Kind(f, Parent(p)) = "none" THEN "FileNotFoundError"
    ELSE IF Kind(f, Parent(p)) # "dir" THEN "NotADirectoryError"
    ELSE "none"

Create(f, c, name, kind) ==
    LET r == resolve_in_cwd(f, c, name)
    IN IF ~r.ok THEN Ret(f, c, "ValueError")
       ELSE IF ~inside_sandbox(f, r.path) THEN Ret(f, c, "outside")
       ELSE IF r.path = FsRoot \/ CreateError(f, r.path) # "none"
            THEN Ret(f, c, IF r.path = FsRoot THEN "FileExistsError" ELSE CreateError(f, r.path))
       ELSE Ret((r.path :> kind) @@ f, c, "created")

\* executor.mkdir
mkdir(f, c, name) == Create(f, c, name, "dir")

\* executor.mkfile
mkfile(f, c, name) == Create(f, c, name, "file")

\* shutil.rmtree / Path.unlink: the entry and everything below it go
Remove(f, p) == [q \in {x \in DOMAIN f : ~IsPrefix(p, x)} |-> f[q]]

\* delete without the check of the entry's type against the kind asked for
delete_untyped(f, c, kind, name) ==
    LET r == resolve_in_cwd(f, c, name)
    IN IF ~r.ok THEN Ret(f, c, "ValueError")
       ELSE IF ~inside_sandbox(f, r.path) THEN Ret(f, c, "outside")
       ELSE IF ~Exists(f, r.path) THEN Ret(f, c, "FileNotFoundError")
       ELSE Ret(Remove(f, r.path), c, "deleted")

\* executor.delete
delete(f, c, kind, name) ==
    LET r == resolve_in_cwd(f, c, name)
    IN IF ~r.ok THEN Ret(f, c, "ValueError")
       ELSE IF ~inside_sandbox(f, r.path) THEN Ret(f, c, "outside")
       ELSE IF kind = "folder"
            THEN IF ~IsDir(f, r.path) THEN Ret(f, c, "not a directory")
                 ELSE Ret(Remove(f, r.path), c, "deleted")
       ELSE IF ~IsFile(f, r.path) THEN Ret(f, c, "not a file")
            ELSE Ret(Remove(f, r.path), c, "deleted")

\* cd that trusts the joined path: no sandbox check before the move
cd_unconfined(f, c, path) ==
    LET target == Resolve(f, JoinPath(c, path))
    IN IF ~IsDir(f, target) THEN Ret(f, c, "not a directory")
       ELSE Ret(f, target, "changed")

\* cd that moves as soon as the name resolves, before it looks at the target
cd_assign_first(f, c, path) ==
    IF path = <<"..">> /\ c = base THEN Ret(f, c, "at root")
    ELSE LET r == resolve_in_cwd(f, c, path)
         IN IF ~r.ok THEN Ret(f, c, "ValueError")
            ELSE IF ~IsDir(f, r.path) THEN Ret(f, r.path, "not a directory")
            ELSE Ret(f, r.path, "changed")

\* executor.cd
cd(f, c, path) ==
    IF path = <<"..">> /\ c = base THEN Ret(f, c, "at root")
    ELSE LET r == resolve_in_cwd(f, c, path)
         IN IF ~r.ok THEN Ret(f, c, "ValueError")
            ELSE IF ~inside_sandbox(f, r.path) THEN Ret(f, c, "outside")
            ELSE IF ~IsDir(f, r.path) THEN Ret(f, c, "not a directory")
            ELSE Ret(f, change_directory(f, c, r.path), "changed")

\* str(path) of a relative path: the components joined by "/", "." for the empty one
RECURSIVE PathText(_)
PathText(p) ==
    IF p = <<>> THEN <<".">>
    ELSE IF Len(p) = 1 THEN p
    ELSE <<Head(p), "/">> \o PathText(Tail(p))

\* executor.pwd: "/" followed by cwd relative to base, "/" alone when relative_to raises
pwd(c) ==
    IF ~IsPrefix(base, c) THEN <<"/">>
    ELSE <<"/">> \o PathText(SubSeq(c, Len(base) + 1, Len(c)))

\* the entries at and below p
Under(f, p) == {q \in DOMAIN f : IsPrefix(p, q)}
Rebase(q, from, to) == to \o SubSeq(q, Len(from) + 1, Len(q))
Children(f, p) == {q \in DOMAIN f : Len(q) = Len(p) + 1 /\ Parent(q) = p}
Ancestors(p) == {SubSeq(p, 1, n) : n \in 0..(Len(p) - 1)}

\* os.rename(src, dst) of an entry onto a free path: the subtree changes its prefix
MoveTree(f, src, dst) ==
    [q \in {x \in DOMAIN f : ~IsPrefix(src, x)} \cup {Rebase(x, src, dst) : x \in Under(f, src)}
        |-> IF IsPrefix(dst, q) /\ Rebase(q, dst, src) \in Under(f, src)
            THEN f[Rebase(q, dst, src)] ELSE f[q]]

\* what shutil.copytree reads below p, links followed: pairs <<path below p, value>>
RECURSIVE TreeOf(_, _)
TreeOf(f, p) ==
    IF Kind(f, p) = "link" THEN TreeOf(f, Resolve(f, p))
    ELSE IF Kind(f, p) = "dir"
         THEN {<< <<>>, "dir" >>}
              \cup UNION {{<< <<q[Len(q)]>> \o t[1], t[2] >> : t \in TreeOf(f, q)} : q \in Children(f, p)}
    ELSE {<< <<>>, f[p] >>}

\* shutil.copytree(src, dst): os.makedirs(dst), then the tree read below src
CopyTree(f, src, dst) ==
    LET tree == TreeOf(f, src)
        made == {a \in Ancestors(dst) : a \notin DOMAIN f}
        new == {dst \o t[1] : t \in tree}
    IN [q \in DOMAIN f \cup made \cup new |->
            IF q \in new THEN (CHOOSE t \in tree : dst \o t[1] = q)[2]
            ELSE IF q \in made THEN "dir"
            ELSE f[q]]

\* shutil.copy2(src, dst) of a regular file: "ok" and the new filesystem, or the error
Copy2(f, src, dst) ==
    LET d1 == IF IsDir(f, dst) THEN Append(Resolve(f, dst), src[Len(src)]) ELSE dst
        t == Resolve(f, d1)
    IN IF t = src THEN [err |-> "SameFileError", fs |-> f]
       ELSE IF Kind(f, t) = "dir" THEN [err |-> "IsADirectoryError", fs |-> f]
       ELSE IF t = FsRoot \/ Kind(f, Parent(t)) = "none" THEN [err |-> "FileNotFoundError", fs |-> f]
       ELSE IF Kind(f, Parent(t)) # "dir" THEN [err |-> "NotADirectoryError", fs |-> f]
       ELSE [err |-> "none", fs |-> [q \in DOMAIN f \cup {t} |-> IF q = t THEN f[src] ELSE f[q]]]

\* dst / src.name when dst is an existing directory
Redirect(f, src, dst) == IF Exists(f, dst) /\ IsDir(f, dst) THEN Append(dst, src[Len(src)]) ELSE dst

\* executor.copy_item
copy_item(f, c, src_name, dst_name) ==
    LET s == resolve_in_cwd(f, c, src_name)
        d == resolve_in_cwd(f, c, dst_name)
    IN IF ~s.ok \/ ~d.ok THEN Ret(f, c, "ValueError")
       ELSE LET src == s.path
                dst == Redirect(f, src, d.path)
            IN IF ~inside_sandbox(f, src) \/ ~inside_sandbox(f, dst) THEN Ret(f, c, "outside")
               ELSE IF ~Exists(f, src) THEN Ret(f, c, "not found")
               ELSE IF IsDir(f, src)
                    THEN IF Exists(f, dst) THEN Ret(f, c, "already exists")
                         ELSE IF \E a \in Ancestors(dst) : Kind(f, a) \notin {"dir", "none"}
                              THEN Ret(f, c, "Error")
                         ELSE Ret(CopyTree(f, src, dst), c, "copied folder")
               ELSE LET dst2 == IF IsDir(f, dst) THEN Append(dst, src[Len(src)]) ELSE dst
                        cp == Copy2(f, src, dst2)
                    IN IF cp.err # "none" THEN Ret(f, c, "Error")
                       ELSE Ret(cp.fs, c, "copied file")

\* the missing ancestors of p made directories (os.makedirs)
WithParents(f, p) ==
    [q \in DOMAIN f \cup {a \in Ancestors(p) : a \notin DOMAIN f} |-> IF q \in DOMAIN f THEN f[q] ELSE "dir"]

\* shutil.move(src, dst) onto a free path: os.rename, or on its OSError copytree and
\* rmtree for a directory, copy2 and unlink for a file
ShutilMove(f, src, dst) ==
    IF Kind(f, Parent(dst)) = "dir" /\ ~IsPrefix(src, dst)
    THEN [err |-> "none", fs |-> MoveTree(f, src, dst)]
    ELSE IF Kind(f, src) = "dir"
         THEN IF IsPrefix(src, dst) \/ \E a \in Ancestors(dst) : Kind(f, a) \notin {"dir", "none"}
              THEN [err |-> "Error", fs |-> f]
              ELSE [err |-> "none", fs |-> MoveTree(WithParents(f, dst), src, dst)]
    ELSE [err |-> "Error", fs |-> f]

\* executor.move_item
move_item(f, c, src_name, dst_name) ==
    LET s == resolve_in_cwd(f, c, src_name)
        d == resolve_in_cwd(f, c, dst_name)
    IN IF ~s.ok \/ ~d.ok THEN Ret(f, c, "ValueError")
       ELSE LET src == s.path
                dst == Redirect(f, src, d.path)
            IN IF ~inside_sandbox(f, src) \/ ~inside_sandbox(f, dst) THEN Ret(f, c, "outside")
               ELSE IF ~Exists(f, src) THEN Ret(f, c, "not found")
               ELSE IF Exists(f, dst) THEN Ret(f, c, "already exists")
               ELSE LET mv == ShutilMove(f, src, dst)
                    IN IF mv.err # "none" THEN Ret(f, c, "Error") ELSE Ret(mv.fs, c, "moved")

\* rename_item without the test that the new name is free
rename_item_clobber(f, c, old, new) ==
    LET s == resolve_in_cwd(f, c, old)
    IN IF ~s.ok THEN Ret(f, c, "ValueError")
       ELSE IF ~inside_sandbox(f, s.path) THEN Ret(f, c, "outside")
       ELSE IF ~Exists(f, s.path) THEN Ret(f, c, "not found")
       ELSE LET src == s.path
                dst == JoinPath(Parent(src), new)
                t == Resolve(f, dst)
            IN IF ~inside_sandbox(f, dst) THEN Ret(f, c, "target outside")
               ELSE IF Kind(f, Parent(t)) # "dir" \/ IsPrefix(src, t) THEN Ret(f, c, "Error")
               ELSE Ret(MoveTree(f, src, t), c, "renamed")

\* executor.rename_item
rename_item(f, c, old, new) ==
    LET s == resolve_in_cwd(f, c, old)
    IN IF ~s.ok THEN Ret(f, c, "ValueError")
       ELSE IF ~inside_sandbox(f, s.path) THEN Ret(f, c, "outside")
       ELSE IF ~Exists(f, s.path) THEN Ret(f, c, "not found")
       ELSE LET src == s.path
                dst == JoinPath(Parent(src), new)
                t == Resolve(f, dst)
            IN IF ~inside_sandbox(f, dst) THEN Ret(f, c, "target outside")
               ELSE IF Exists(f, dst) THEN Ret(f, c, "already exists")
               ELSE IF Kind(f, Parent(t)) # "dir" \/ IsPrefix(src, t) THEN Ret(f, c, "Error")
               ELSE Ret(MoveTree(f, src, t), c, "renamed")

\* data[-count:] of a Python list: the start index -count counts from the end when
\* it is negative, and is the start of the list when it is 0
SliceFromNeg(data, count) ==
    LET start == IF count > 0 THEN (IF count > Len(data) THEN 0 ELSE Len(data) - count)
                 ELSE 0
    IN SubSeq(data, start + 1, Len(data))

\* logging_util.log_event: one row more at the end of logs.csv
log_event(rows, entry) == Append(rows, entry)

\* executor.read_history: the rows read from logs.csv, sliced
read_history(rows, count) == SliceFromNeg(rows, count)

\* executor.clear_history: logs.csv rewritten with its header alone
clear_history(rows) == <<>>

\* executor.touch_file
touch_file(f, c, name) ==
    LET r == resolve_in_cwd(f, c, name)
    IN IF ~r.ok THEN Ret(f, c, "ValueError")
       ELSE IF ~inside_sandbox(f, r.path) THEN Ret(f, c, "outside")
       ELSE IF Exists(f, r.path) THEN Ret(f, c, "touched")
       ELSE IF Kind(f, Parent(r.path)) # "dir" THEN Ret(f, c, "Error")
       ELSE Ret((r.path :> "file") @@ f, c, "touched")

\* a file's content with one more line written at its end
AppendLine(content) ==
    CASE content = "file" -> "x"
      [] content = "x" -> "xx"
      [] content = "y" -> "yx"

\* executor.append_file
append_file(f, c, name, text) ==
    LET r == resolve_in_cwd(f, c, name)
    IN IF ~r.ok THEN Ret(f, c, "ValueError")
       ELSE IF ~inside_sandbox(f, r.path) THEN Ret(f, c, "outside")
       ELSE IF Kind(f, r.path) = "dir" \/ Kind(f, Parent(r.path)) # "dir" THEN Ret(f, c, "Error")
       ELSE Ret([q \in DOMAIN f \cup {r.path} |->
                    IF q = r.path THEN AppendLine(IF q \in DOMAIN f THEN f[q] ELSE "file") ELSE f[q]],
                c, "appended")

\* os_name of open_app: 'Windows' if platform.system() == 'Windows' else 'Linux'
Platforms == {"Windows", "Linux"}

\* executor.ALLOWED_APPS: per platform, application name -> command line
ALLOWED_APPS ==
    [Windows |-> ("notepad" :> <<"notepad">>) @@ ("calc" :> <<"calc">>),
     Linux |-> ("gedit" :> <<"gedit">>) @@ ("calculator" :> <<"gnome-calculator">>)
               @@ ("code" :> <<"code">>)]

\* open_app that hands a name off the whitelist to the launcher as it is
open_app_unchecked(os, app) ==
    LET allowed == ALLOWED_APPS[os]
    IN IF Len(app) = 1 /\ app[1] \in DOMAIN allowed
       THEN [spawn |-> <<allowed[app[1]]>>, res |-> "opened"]
       ELSE [spawn |-> <<app>>, res |-> "opened"]

\* executor.open_app: the command lines given to subprocess.Popen, and the outcome
open_app(os, app) ==
    LET allowed == ALLOWED_APPS[os]
    IN IF ~(Len(app) = 1 /\ app[1] \in DOMAIN allowed)
       THEN [spawn |-> NoSpawn, res |-> "not allowed"]
       ELSE [spawn |-> <<allowed[app[1]]>>, res |-> "opened"]

\* open_file._normalize_spoken_path
normalize_spoken_path(s) ==
    SubWord(SubWord(SubWord(SubWord(SubWord(SubWord(s, "dot", "."), "period", "."),
                                    "underscore", "_"), "dash", "-"), "slash", "/"),
            "backslash", "\\")

\* the extensions of the heuristic
CommonExts == {"txt", "pdf", "docx", "xlsx", "csv", "md", "png", "jpg", "jpeg"}

\* re.match(r"^(?P<base>[\w\-. /\\]+)\s+(?P<ext>txt|pdf|...)$", s): the last chunk is
\* an extension, white space stands before it, and the greedy base is what precedes
\* the last of that white space: one chunk at least, each of the path class
MatchBaseExt(s) ==
    IF /\ Len(s) >= 3
       /\ s[Len(s)] \in CommonExts
       /\ ChunkClass(s[Len(s) - 1]) = "space"
       /\ \A k \in 1..(Len(s) - 2) :
              ChunkClass(s[k]) \in {"word", "digits", "space", "slash", "bslash"}
    THEN [ok |-> TRUE, base |-> SubSeq(s, 1, Len(s) - 2), ext |-> <<s[Len(s)]>>]
    ELSE [ok |-> FALSE]

\* the name the heuristic builds from a match: base.ext
BaseDotExt(m) == IF m.ok THEN <<Strip(m.base) \o <<".">> \o Strip(m.ext)>> ELSE <<>>

\* the list candidates built from name.strip() and the normalized name
CandidateList(first, normalized) ==
    <<first>> \o (IF normalized # first THEN <<normalized>> ELSE <<>>)
              \o BaseDotExt(MatchBaseExt(normalized))

\* the candidate names open_file tries, in order
candidates(name) == CandidateList(Strip(name), Strip(normalize_spoken_path(name)))

\* the one candidate tried: it resolves inside the sandbox and exists
Found(f, c, cand) ==
    LET r == resolve_in_cwd(f, c, cand)
    IN r.ok /\ inside_sandbox(f, r.path) /\ Exists(f, r.path)

\* for cand in candidates: the path of the first candidate found, if any
RECURSIVE FirstFound(_, _, _)
FirstFound(f, c, cands) ==
    IF cands = <<>> THEN [ok |-> FALSE]
    ELSE IF Found(f, c, Head(cands))
         THEN [ok |-> TRUE, path |-> resolve_in_cwd(f, c, Head(cands)).path]
    ELSE FirstFound(f, c, Tail(cands))

\* what open_file does with the path: the platform's opener is started on it
Opened(f, c, hit) ==
    IF ~hit.ok THEN Ret(f, c, "not found")
    ELSE [Ret(f, c, "opened") EXCEPT !.spawn = <<hit.path>>]

\* executor.open_file: the first candidate name that exists in the sandbox is handed
\* to the platform's opener
open_file(f, c, name) == Opened(f, c, FirstFound(f, c, candidates(name)))

-----------------------------------------------------------------------------
(* The dispatcher (commands.handle) and the command loop (main.py).        *)

\* w1 w2 ... wn as a text
RECURSIVE Words(_)
Words(ws) == IF Len(ws) <= 1 THEN ws ELSE <<Head(ws), SP>> \o Words(Tail(ws))

ShellTexts ==
    { Words(<<"list", "files">>), Words(<<"help">>), Words(<<"where", "am", "i">>),
      Words(<<"create", "folder", "a">>), Words(<<"create", "file", "a">>),
      Words(<<"Create", "File", "b">>), Words(<<"create", "folder", ".">>),
      Words(<<"delete", "file", "a">>), Words(<<"delete", "folder", "a">>),
      Words(<<"delete", "file", "b">>), Words(<<"delete", "folder", ".">>),
      Words(<<"delete", "folder", "..">>), Words(<<"delete", "folder", "l">>),
      Words(<<"go", "to", "a">>), Words(<<"go", "to", "..">>), Words(<<"go", "back">>),
      Words(<<"move", "to", "b">>), Words(<<"go", "to", "l">>),
      Words(<<"go", "to">>) \o <<SP, "..", "/", "..">>, Words(<<"go", "to">>) \o <<SP, "/", "out">>,
      Words(<<"go", "to">>) \o <<SP, "a", "/", "..">>,
      Words(<<"grep">>) \o <<SP, "\"", "a", "\"">>,
      Words(<<"yes">>), Words(<<"y">>), <<SP, "YES", SP>>, Words(<<"no">>),
      Words(<<"yes", "please">>), Words(<<"exit">>), Words(<<"make", "coffee">>) }

\* parse and the reply test, evaluated once for each text of the shell
\* one text or two for every kind of intent the parser produces
RouteTexts ==
    { Words(<<"help">>), Words(<<"exit">>), Words(<<"list", "files">>), Words(<<"search", "a">>),
      Words(<<"create", "folder", "a">>), Words(<<"create", "file", "b">>),
      Words(<<"rename", "a", "to", "b">>), Words(<<"copy", "a", "to", "b">>),
      Words(<<"move", "a", "to", "b">>), Words(<<"read", "file", "a">>),
      <<"append", SP, "\"", "x", "\"", SP>> \o Words(<<"to", "file", "a">>),
      Words(<<"delete", "file", "a">>), Words(<<"go", "to", "a">>), Words(<<"go", "back">>),
      Words(<<"where", "am", "i">>), Words(<<"history">>), Words(<<"history", "3">>),
      Words(<<"recent", "files">>), Words(<<"clear", "history">>), Words(<<"stats">>),
      Words(<<"size", "of", "a">>), Words(<<"tree">>), Words(<<"touch", "b">>),
      Words(<<"open", "a">>), Words(<<"open", "notepad">>), Words(<<"open", "calculator">>),
      Words(<<"open", "notes", "dot", "txt">>), Words(<<"open", "notes", "txt">>),
      <<"open", SP, "notes", ".", "txt">>,
      <<"grep", SP, "\"", "a", "\"">>, <<"grep", SP, "'", "a", "'">>,
      Words(<<"make", "coffee">>) }

Intents == [text \in ShellTexts \cup RouteTexts |-> parse(text)]
Replies == [text \in ShellTexts \cup RouteTexts |-> Normalize(text)]

NoToken == "None"
None == [none |-> TRUE]        \* pending_payload = None

Handled(r, op, token) ==
    [fs |-> r.fs, cwd |-> r.cwd, op |-> op, res |-> r.res, listing |-> r.listing, out |-> r.out,
     spawn |-> r.spawn, token |-> token]

\* Path.rglob('*') below d: every entry below it. A link is yielded and not entered
\* (what lies behind a link is no entry of the model below the link's path)
rglob(f, d) == {q \in DOMAIN f : IsPrefix(d, q) /\ q # d}

\* q in p.name.lower(), for the one-letter names and queries of the model
NameHas(name, q) == name = q
\* q in line.lower() for some line of a file that holds content
LineHas(content, q) == q = "x" /\ content \in {"x", "xx", "yx"}

\* what a scan did: the resolved paths of the entries whose content or metadata it
\* read, and the paths it returned
Scanned(read, returned) == [read |-> read, returned |-> returned]

\* executor.search_files: names are compared, and a match is kept when inside
search_files(f, c, q) ==
    Scanned({}, {p \in rglob(f, c) : NameHas(p[Len(p)], q) /\ inside_sandbox(f, p)})

\* executor.grep_files: every p with p.is_file() is opened and read; a matching line is
\* kept when p is inside
grep_files(f, c, q) ==
    LET files == {p \in rglob(f, c) : IsFile(f, p)}
    IN Scanned({Resolve(f, p) : p \in files},
               {p \in files : LineHas(f[Resolve(f, p)], q) /\ inside_sandbox(f, p)})

\* executor.recent_files: every p with p.is_file() is kept and its st_mtime read; chosen
\* is the set the sort puts first
recent_files(f, c, chosen) ==
    Scanned({Resolve(f, p) : p \in chosen}
                \cup {Resolve(f, p) : p \in {q \in rglob(f, c) : IsFile(f, q)}},
            chosen)
RecentChoices(f, c, count) ==
    LET files == {p \in rglob(f, c) : IsFile(f, p)}
    IN {S \in SUBSET files :
            Cardinality(S) = (IF Cardinality(files) < count THEN Cardinality(files) ELSE count)}

\* executor._dir_size: st_size of the file, or of every p below with p.is_file()
dir_size(f, path) ==
    IF IsFile(f, path) THEN {Resolve(f, path)}
    ELSE {Resolve(f, p) : p \in {q \in rglob(f, path) : IsFile(f, q)}}

\* executor.item_size
item_size(f, c, name) ==
    LET r == resolve_in_cwd(f, c, name)
    IN IF ~r.ok \/ ~inside_sandbox(f, r.path) \/ ~Exists(f, r.path) THEN Scanned({}, {})
       ELSE Scanned(dir_size(f, r.path), {})

\* executor.read_file
read_file(f, c, name) ==
    LET r == resolve_in_cwd(f, c, name)
    IN IF ~r.ok \/ ~inside_sandbox(f, r.path) \/ ~IsFile(f, r.path) THEN Scanned({}, {})
       ELSE Scanned({Resolve(f, r.path)}, {})

\* commands.handle, the branches other than DELETE, in the order of the chain.  An
\* executor function that only reads (search_files, read_file, read_history,
\* recent_files, stats, item_size, dir_tree) leaves the filesystem and cwd as they are.
\* The last branch is the else of the chain: GREP has no branch of its own.
handle_other(intent, f, c) ==
    CASE intent.type = "HELP" -> Handled(Ret(f, c, "-"), "help", NoToken)
      [] intent.type = "EXIT" -> Handled(Ret(f, c, "-"), "none", "EXIT")
      [] intent.type = "LIST" ->
            Handled([Ret(f, c, "-") EXCEPT !.listing = list_files(f, c)], "list_files", NoToken)
      [] intent.type = "SEARCH" -> Handled(Ret(f, c, "-"), "search_files", NoToken)
      [] intent.type = "MKDIR" -> Handled(mkdir(f, c, intent.name), "mkdir", NoToken)
      [] intent.type = "MKFILE" -> Handled(mkfile(f, c, intent.name), "mkfile", NoToken)
      [] intent.type = "RENAME" ->
            Handled(rename_item(f, c, intent.old, intent.new), "rename_item", NoToken)
      [] intent.type = "COPY" -> Handled(copy_item(f, c, intent.src, intent.dst), "copy_item", NoToken)
      [] intent.type = "MOVE" -> Handled(move_item(f, c, intent.src, intent.dst), "move_item", NoToken)
      [] intent.type = "READ" -> Handled(Ret(f, c, "-"), "read_file", NoToken)
      [] intent.type = "APPEND" ->
            Handled(append_file(f, c, intent.name, intent.text), "append_file", NoToken)
      [] intent.type = "CD" -> Handled(cd(f, c, intent.path), "cd", NoToken)
      [] intent.type = "PWD" -> Handled([Ret(f, c, "-") EXCEPT !.out = pwd(c)], "pwd", NoToken)
      [] intent.type = "HISTORY" -> Handled(Ret(f, c, "-"), "read_history", NoToken)
      [] intent.type = "RECENTS" -> Handled(Ret(f, c, "-"), "recent_files", NoToken)
      [] intent.type = "CLEAR_HISTORY" -> Handled(Ret(f, c, "-"), "clear_history", NoToken)
      [] intent.type = "STATS" -> Handled(Ret(f, c, "-"), "stats", NoToken)
      [] intent.type = "SIZE" -> Handled(Ret(f, c, "-"), "item_size", NoToken)
      [] intent.type = "TREE" -> Handled(Ret(f, c, "-"), "dir_tree", NoToken)
      [] intent.type = "TOUCH" -> Handled(touch_file(f, c, intent.name), "touch_file", NoToken)
      [] intent.type = "OPEN_FILE" -> Handled(open_file(f, c, intent.name), "open_file", NoToken)
      [] intent.type = "OPEN_APP" ->
            Handled([Ret(f, c, open_app(os_name, intent.app).res)
                        EXCEPT !.spawn = open_app(os_name, intent.app).spawn], "open_app", NoToken)
      [] OTHER -> Handled(Ret(f, c, "-"), "unrecognized", NoToken)

\* handle whose DELETE branch calls the delete primitive at once
handle_eager_delete(intent, f, c) ==
    IF intent.type = "DELETE"
    THEN Handled(delete(f, c, intent.kind, intent.name), "delete", "AWAIT_CONFIRM_DELETE")
    ELSE handle_other(intent, f, c)

\* commands.handle: the executor call of the intent's branch and the token returned;
\* the DELETE branch calls nothing and returns the token that asks for confirmation
handle(intent, f, c) ==
    IF intent.type = "DELETE"
    THEN Handled(Ret(f, c, "-"), "none", "AWAIT_CONFIRM_DELETE")
    ELSE handle_other(intent, f, c)

\* the payload handle returns with AWAIT_CONFIRM_DELETE
Payload(intent) == [kind |-> intent.kind, name |-> intent.name]

\* a reply test that accepts any reply beginning with yes
IsYes_prefix(text) == Replies[text] # <<>> /\ Replies[text][1] \in {"yes", "y"}

\* the test of ShellStateMachine.handle_delete_confirmation on the reply
IsYes(text) == Replies[text] \in {<<"yes">>, <<"y">>}

\* commands.handle: the message msg a branch prints and says once its executor call
\* has returned; the executor functions return None and raise nothing
handle_msg(type) ==
    CASE type = "MKDIR" -> "Created folder"
      [] type = "MKFILE" -> "Created file"
      [] type = "CD" -> "Changed directory to"
      [] type = "OPEN_APP" -> "Opened"
      [] OTHER -> "-"

\* handle_delete_confirmation: the outcome shown and logged after executor.delete
\* has returned
DeletedOutcome == "Successfully deleted"

Did(route, text, type, payload, op, res, listing, out, logged) ==
    [route |-> route, text |-> text, type |-> type, payload |-> payload, op |-> op, res |-> res,
     listing |-> listing, out |-> out, logged |-> logged,
     said |-> IF route = "dispatch" THEN handle_msg(type)
              ELSE IF route = "confirm_yes" THEN DeletedOutcome ELSE "-"]

\* handle_delete_confirmation that resets the state on the affirmative branch only
handle_delete_confirmation_sticky(text) ==
    /\ sm = "AWAIT_CONFIRM_DELETE" /\ pending # None
    /\ IF IsYes(text)
       THEN LET d == delete(fs, cwd, pending.kind, pending.name)
            IN /\ fs' = d.fs
               /\ sm' = "READY"
               /\ pending' = None
               /\ last' = Did("confirm_yes", text, "-", pending, "delete", d.res, {}, <<>>, 1)
       ELSE /\ UNCHANGED <<fs, sm, pending>>
            /\ last' = Did("confirm_cancel", text, "-", pending, "none", "-", {}, <<>>, 1)
    /\ UNCHANGED <<cwd, running>>

\* ShellStateMachine.handle_delete_confirmation when a confirmation is pending
handle_delete_confirmation(text) ==
    /\ sm = "AWAIT_CONFIRM_DELETE" /\ pending # None
    /\ sm' = "READY"
    /\ pending' = None
    /\ IF IsYes(text)
       THEN LET d == delete(fs, cwd, pending.kind, pending.name)
            IN /\ fs' = d.fs
               /\ last' = Did("confirm_yes", text, "-", pending, "delete", d.res, {}, <<>>, 1)
       ELSE /\ fs' = fs
            /\ last' = Did("confirm_cancel", text, "-", pending, "none", "-", {}, <<>>, 1)
    /\ UNCHANGED <<cwd, running>>

\* VoiceShell.process_command when no confirmation is pending: parse, handle, log,
\* then the special states (set_delete_confirmation logs a second entry)
dispatch(text) ==
    /\ ~(sm = "AWAIT_CONFIRM_DELETE" /\ pending # None)
    /\ LET intent == Intents[text]
           h == handle(intent, fs, cwd)
       IN /\ fs' = h.fs
          /\ cwd' = h.cwd
          /\ running' = IF h.token = "EXIT" THEN FALSE ELSE running
          /\ IF h.token = "AWAIT_CONFIRM_DELETE"
             THEN sm' = "AWAIT_CONFIRM_DELETE" /\ pending' = Payload(intent)
             ELSE UNCHANGED <<sm, pending>>
          /\ last' = Did("dispatch", text, intent.type, None, h.op, h.res, h.listing, h.out,
                         IF h.token = "AWAIT_CONFIRM_DELETE" THEN 2 ELSE 1)

-----------------------------------------------------------------------------
(* The shell: texts handed to process_command one after the other.         *)

MaxEntries == 3      \* entries the sandbox may hold; creation stops there

\* the sandbox at startup: empty, or holding a link to the outside directory
Outside == (FsRoot :> "dir") @@ (OutDir :> "dir") @@ (Append(OutDir, "a") :> "file")
InitialFs ==
    { (base :> "dir") @@ Outside,
      (base :> "dir") @@ (Append(base, LinkName) :> "link") @@ Outside }

Entries(f) == {p \in DOMAIN f : IsPrefix(base, p) /\ p # base}

ExecIdle == log = <<>> /\ call = None /\ result = None

\* VoiceShell.__init__: no listening thread, nothing requested
UiIdle == [pc |-> "idle", text |-> <<>>]
VoiceIdle ==
    /\ listening_thread_active = FALSE
    /\ stop_requested = FALSE
    /\ listen_stop_event = FALSE
    /\ workers = <<>>
    /\ ui_thread = UiIdle
    /\ listen_reply = "-"

Idle == Did("none", <<>>, "-", None, "none", "-", {}, <<>>, 0)

Init ==
    /\ fs \in InitialFs
    /\ cwd = base
    /\ sm = "READY"
    /\ pending = None
    /\ running = TRUE
    /\ last = Idle
    /\ ptext = <<>> /\ pres = None /\ rin = None /\ rout = None
    /\ os_name = "Linux"        \* no text of ShellTexts launches anything; SpecRoute draws both
    /\ ExecIdle /\ VoiceIdle

\* one text through VoiceShell.process_command
process_command(text) ==
    /\ running
    /\ Intents[text].type \in {"MKDIR", "MKFILE"} => Cardinality(Entries(fs)) < MaxEntries
    /\ \/ handle_delete_confirmation(text)
       \/ dispatch(text)
    /\ UNCHANGED <<checks, os_name, exec>>

Next == \E text \in ShellTexts : process_command(text) /\ UNCHANGED voice

Spec == Init /\ [][Next]_vars

-----------------------------------------------------------------------------
(* The parser on its own: a text is drawn and handed to parse.             *)

MaxTail == 2         \* words that follow the head phrase of a drawn text

Quoted(ws) == <<"\"">> \o Words(ws) \o <<"\"">>

\* openings of texts: at least one per rule, and the ones two rules compete for
HeadPhrases ==
    { <<>>,
      Words(<<"help">>), Words(<<"show", "help">>), Words(<<"what", "can", "you", "do">>),
      Words(<<"exit">>), Words(<<"bye">>),
      Words(<<"list", "files">>), Words(<<"show", "file">>), Words(<<"list", "all", "contents">>),
      Words(<<"show", "file", "notes.txt">>), Words(<<"list", "files", "in", "docs">>),
      Words(<<"show", "me", "the", "contents">>), Words(<<"what", "files", "are", "here">>),
      Words(<<"create", "folder">>), Words(<<"make", "a", "new", "directory", "called">>),
      Words(<<"create", "file">>), Words(<<"make", "a", "file", "called">>),
      Words(<<"delete", "file">>), Words(<<"remove", "the", "folder">>),
      Words(<<"delete", "directory", "called">>),
      Words(<<"cd", "to">>), Words(<<"go", "to">>), Words(<<"move", "to">>),
      Words(<<"move", "to", "folder">>), Words(<<"move", "to", "a">>),
      Words(<<"change", "directory", "to">>) \o <<SP, "a", "/", "b">>,
      Words(<<"go", "back">>), Words(<<"back">>),
      Words(<<"where", "am", "i">>), Words(<<"show", "current", "directory">>),
      Words(<<"open", "notepad">>), Words(<<"open", "the", "calculator">>),
      Words(<<"launch", "paint">>), Words(<<"would", "you", "kindly", "open", "notepad">>),
      Words(<<"open">>), Words(<<"open", "file">>), Words(<<"open", "notes", "dot", "txt">>),
      Words(<<"search">>), Words(<<"look", "for">>), Words(<<"find", "in", "files">>),
      Words(<<"rename", "a">>), Words(<<"history">>),
      Words(<<"copy", "a">>), Words(<<"move", "a">>), Words(<<"move">>),
      Words(<<"read", "file">>), Words(<<"display", "file">>),
      Words(<<"append">>) \o <<SP>> \o Quoted(<<"hi">>) \o <<SP>> \o Words(<<"to", "file">>),
      Words(<<"write">>) \o <<SP, "'", "hi", "'", SP>> \o Words(<<"into", "file">>),
      Words(<<"grep">>) \o <<SP>> \o Quoted(<<"a">>), Words(<<"grep">>) \o <<SP, "'", "a", "'">>,
      Words(<<"grep">>),
      Words(<<"size", "of">>), Words(<<"how", "big", "is">>),
      Words(<<"tree">>), Words(<<"touch">>), Words(<<"clear", "history">>),
      Words(<<"recent", "files">>), Words(<<"stats">>), Words(<<"stats", "here">>),
      Words(<<"make", "coffee">>) }

TailWords == {"a", "to", "file", "3", "\""}

RECURSIVE TailsUpTo(_)
TailsUpTo(n) ==
    IF n = 0 THEN {<<>>}
    ELSE LET shorter == TailsUpTo(n - 1)
         IN shorter \cup {Append(t, w) : t \in shorter, w \in TailWords}

\* head and tail joined by blanks, with or without a leading "please"
Sentence(polite, head, tail) ==
    LET body == IF head = <<>> THEN Words(tail)
                ELSE IF tail = <<>> THEN head
                ELSE head \o <<SP>> \o Words(tail)
    IN IF polite /\ body # <<>> THEN <<"please", SP>> \o body ELSE body

ParseTexts ==
    {Sentence(polite, head, tail) : polite \in BOOLEAN, head \in HeadPhrases, tail \in TailsUpTo(MaxTail)}

ShellIdle ==
    /\ fs \in {(base :> "dir") @@ Outside}
    /\ os_name = "Linux"
    /\ cwd = base /\ sm = "READY" /\ pending = None /\ running = TRUE /\ last = Idle
    /\ VoiceIdle

InitParse ==
    /\ ptext \in ParseTexts
    /\ pres = None
    /\ rin = None /\ rout = None
    /\ ShellIdle /\ ExecIdle

\* the call parse(text)
DoParse ==
    /\ pres = None
    /\ pres' = parse(ptext)
    /\ UNCHANGED <<shell, ptext, rin, rout, os_name, exec, voice>>

NextParse == DoParse

SpecParse == InitParse /\ [][NextParse]_vars

-----------------------------------------------------------------------------
(* The resolver on its own: a filesystem, a current directory inside the   *)
(* sandbox and a name are drawn and handed to resolve_in_cwd.              *)

MaxParts == 3        \* components of a drawn name

PartNames == {"..", ".", "a", LinkName, "sb", "out"}

RECURSIVE PartsUpTo(_)
PartsUpTo(n) ==
    IF n = 0 THEN {<<>>}
    ELSE LET shorter == PartsUpTo(n - 1)
         IN shorter \cup {Append(t, w) : t \in shorter, w \in PartNames}

\* the name as the user writes it: the parts joined by "/", after a "/" when absolute
RECURSIVE Slashed(_)
Slashed(ps) == IF Len(ps) <= 1 THEN ps ELSE <<Head(ps), "/">> \o Slashed(Tail(ps))
NameOf(abs, ps) == IF abs THEN <<"/">> \o Slashed(ps) ELSE Slashed(ps)

DrawnNames == {NameOf(abs, ps) : abs \in BOOLEAN, ps \in PartsUpTo(MaxParts)}

SbA == Append(base, "a")
SbAA == Append(SbA, "a")
DrawnFs ==
    { (base :> "dir") @@ Outside,
      (base :> "dir") @@ (SbA :> "dir") @@ (Append(base, LinkName) :> "link") @@ Outside,
      (base :> "dir") @@ (SbA :> "dir") @@ (Append(SbA, LinkName) :> "link") @@ Outside,
      (base :> "dir") @@ (SbA :> "dir") @@ (SbAA :> "file")
         @@ (Append(base, LinkName) :> "link") @@ Outside }

DrawnCwds == {base, SbA, SbAA, Append(base, LinkName)}

InitResolve ==
    /\ rin \in {r \in [fs : DrawnFs, cwd : DrawnCwds, rel : DrawnNames] :
                    inside_sandbox(r.fs, r.cwd)}
    /\ rout = None
    /\ ptext = <<>> /\ pres = None
    /\ ShellIdle /\ ExecIdle

\* the call state.resolve_in_cwd(rel)
DoResolve ==
    /\ rout = None
    /\ rout' = resolve_in_cwd(rin.fs, rin.cwd, rin.rel)
    /\ UNCHANGED <<shell, ptext, pres, rin, os_name, exec, voice>>

NextResolve == DoResolve

SpecResolve == InitResolve /\ [][NextResolve]_vars

-----------------------------------------------------------------------------------------------------------------------------------------------------
(* The dispatcher on one text of every kind, in a sandbox that holds a and b. *)

SbB == Append(base, "b")
SbNotes == Append(base, "notes.txt")     \* the file 'notes.txt' of the sandbox root
RouteFs ==
    { (base :> "dir") @@ Outside,
      (base :> "dir") @@ (SbA :> "x") @@ (SbB :> "dir") @@ Outside,
      (base :> "dir") @@ (SbA :> "dir") @@ (SbAA :> "file") @@ (Append(base, LinkName) :> "link")
         @@ Outside,
      (base :> "dir") @@ (SbA :> "file") @@ (SbB :> "y") @@ Outside,
      (base :> "dir") @@ (SbNotes :> "x") @@ Outside }

InitRoute ==
    /\ fs \in RouteFs
    /\ cwd = base /\ sm = "READY" /\ pending = None /\ running = TRUE /\ last = Idle
    /\ os_name \in Platforms
    /\ ptext \in RouteTexts
    /\ pres = None /\ rin = None /\ rout = None
    /\ ExecIdle /\ VoiceIdle

\* the first text of a session goes through process_command, and after a DELETE
\* request the reply does
NextRoute ==
    \/ last = Idle /\ process_command(ptext) /\ UNCHANGED voice
    \/ /\ sm = "AWAIT_CONFIRM_DELETE"
       /\ \E text \in {Words(<<"yes">>), Words(<<"no">>)} : process_command(text)
       /\ UNCHANGED voice

SpecRoute == InitRoute /\ [][NextRoute]_vars

-----------------------------------------------------------------------------
(* The executor's operations as functions of what they are called with.    *)

AppWords == {"notepad", "calc", "calculator", "gedit", "code", "paint", "browser", "rm", "&"}
DrawnApps == {<<w>> : w \in AppWords} \cup {<<w, SP, v>> : w \in AppWords, v \in AppWords}

OpenAppCalls == [op : {"open_app"}, os : Platforms, app : DrawnApps]

\* the sandboxes the filesystem calls are drawn in: files with different contents,
\* an empty directory, a directory that already holds the name, nested directories
ExecFs ==
    { (base :> "dir") @@ (SbA :> "x") @@ (SbB :> "y") @@ Outside,
      (base :> "dir") @@ (SbA :> "x") @@ (SbB :> "dir") @@ Outside,
      (base :> "dir") @@ (SbA :> "x") @@ (SbB :> "dir") @@ (Append(SbB, "a") :> "y") @@ Outside,
      (base :> "dir") @@ (SbA :> "dir") @@ (SbAA :> "x") @@ (SbB :> "dir") @@ Outside,
      (base :> "dir") @@ (SbA :> "dir") @@ (SbB :> "dir") @@ (Append(SbB, "a") :> "dir") @@ Outside,
      (base :> "dir") @@ (SbB :> "dir") @@ (Append(base, LinkName) :> "link") @@ Outside }

ExecCwds(f) == {c \in {base, SbB} : Kind(f, c) = "dir"}

ExecNames == {<<"a">>, <<"b">>, <<"c">>, <<"..">>, <<".">>, <<LinkName>>, <<"b", "/", "a">>}

CopyCalls == [op : {"copy_item"}, src : ExecNames, dst : ExecNames]

\* the new name of a rename is a bare name, as the parser's [\w\-. ]+ captures it
BareNames == {<<"a">>, <<"b">>, <<"c">>, <<"..">>, <<".">>}
RenameCalls == [op : {"rename_item"}, old : ExecNames, new : BareNames]

MaxLog == 3          \* rows logs.csv may hold

\* the counts _handle_history produces: a number of the text (0 included), 10 without
HistoryCounts == {0, 1, 2, 3, 10}
HistoryCalls == [op : {"read_history"}, count : HistoryCounts]
LogEntries == {"help", "list files", "history"}

\* the scans and the read of one file, in sandboxes that hold links to the outside
ScanOps == {"search_files", "grep_files", "recent_files", "item_size", "read_file"}
ScanFs ==
    { (base :> "dir") @@ (SbA :> "x") @@ (SbB :> "dir") @@ Outside,
      (base :> "dir") @@ (SbA :> "x") @@ (SbB :> "dir")
         @@ (Append(SbB, FileLinkName) :> "link") @@ Outside,
      (base :> "dir") @@ (SbA :> "y") @@ (SbB :> "dir") @@ (Append(SbB, "a") :> "x")
         @@ (Append(base, LinkName) :> "link") @@ Outside,
      (base :> "dir") @@ (SbB :> "dir") @@ (Append(base, FileLinkName) :> "link")
         @@ (Append(SbB, LinkName) :> "link") @@ Outside }
ScanCalls ==
    [op : {"search_files", "grep_files"}, query : {"a", "x", FileLinkName}]
        \cup [op : {"recent_files"}, count : {0, 1, 10}]
        \cup [op : {"item_size", "read_file"}, name : ExecNames \cup { <<"b", "/", FileLinkName>> }]

ExecCalls == OpenAppCalls \cup CopyCalls \cup RenameCalls \cup HistoryCalls \cup ScanCalls

\* shutil.copytree of a directory to a place below itself does not return; no such
\* call is drawn
Returns(f, c, k) ==
    k.op = "copy_item" =>
        LET s == resolve_in_cwd(f, c, k.src)
            d == resolve_in_cwd(f, c, k.dst)
        IN (s.ok /\ d.ok /\ IsDir(f, s.path)) => ~IsPrefix(s.path, Redirect(f, s.path, d.path))

InitExec ==
    /\ call \in ExecCalls
    /\ result = None
    /\ log = <<>>
    /\ ptext = <<>> /\ pres = None /\ rin = None /\ rout = None
    /\ fs \in (IF call.op \in {"open_app", "read_history"} THEN {(base :> "dir") @@ Outside}
               ELSE IF call.op \in ScanOps THEN ScanFs
               ELSE ExecFs)
    /\ cwd \in (IF call.op \in {"open_app", "read_history"} THEN {base} ELSE ExecCwds(fs))
    /\ Returns(fs, cwd, call)
    /\ os_name = "Linux"
    /\ sm = "READY" /\ pending = None /\ running = TRUE /\ last = Idle
    /\ VoiceIdle

\* the call executor.open_app(app)
DoOpenApp ==
    /\ result = None /\ call.op = "open_app"
    /\ result' = open_app(call.os, call.app)
    /\ UNCHANGED <<shell, checks, os_name, log, call, voice>>

\* the call executor.copy_item(state, src_name, dst_name)
DoCopy ==
    /\ result = None /\ call.op = "copy_item"
    /\ LET r == copy_item(fs, cwd, call.src, call.dst)
       IN fs' = r.fs /\ cwd' = r.cwd /\ result' = [res |-> r.res]
    /\ UNCHANGED <<sm, pending, running, last, checks, os_name, log, call, voice>>

\* the call executor.rename_item(state, old, new)
DoRename ==
    /\ result = None /\ call.op = "rename_item"
    /\ LET r == rename_item(fs, cwd, call.old, call.new)
       IN fs' = r.fs /\ cwd' = r.cwd /\ result' = [res |-> r.res]
    /\ UNCHANGED <<sm, pending, running, last, checks, os_name, log, call, voice>>

\* a command is logged: log_event(text, intent_type, outcome)
DoLogEvent ==
    /\ call.op = "read_history" /\ Len(log) < MaxLog
    /\ \E entry \in LogEntries : log' = log_event(log, entry)
    /\ result' = [res |-> "logged"]
    /\ UNCHANGED <<shell, checks, os_name, call, voice>>

\* the call executor.read_history(count)
DoReadHistory ==
    /\ call.op = "read_history"
    /\ result' = [res |-> "rows", rows |-> read_history(log, call.count)]
    /\ UNCHANGED <<shell, checks, os_name, log, call, voice>>

\* the call executor.clear_history()
DoClearHistory ==
    /\ call.op = "read_history"
    /\ log' = clear_history(log)
    /\ result' = [res |-> "History cleared"]
    /\ UNCHANGED <<shell, checks, os_name, call, voice>>

\* the calls executor.search_files, grep_files, recent_files, item_size and read_file
DoScan ==
    /\ result = None /\ call.op \in ScanOps
    /\ CASE call.op = "search_files" -> result' = search_files(fs, cwd, call.query)
         [] call.op = "grep_files" -> result' = grep_files(fs, cwd, call.query)
         [] call.op = "recent_files" ->
               \E chosen \in RecentChoices(fs, cwd, call.count) :
                   result' = recent_files(fs, cwd, chosen)
         [] call.op = "item_size" -> result' = item_size(fs, cwd, call.name)
         [] call.op = "read_file" -> result' = read_file(fs, cwd, call.name)
    /\ UNCHANGED <<shell, checks, os_name, log, call, voice>>

NextExec ==
    \/ DoOpenApp \/ DoCopy \/ DoRename \/ DoLogEvent \/ DoReadHistory \/ DoClearHistory
    \/ DoScan

SpecExec == InitExec /\ [][NextExec]_vars

-----------------------------------------------------------------------------
(* The shell with its window: the UI thread runs the three callbacks, and    *)
(* every accepted listen request starts a process_voice_input thread. Each   *)
(* read or write of a field the threads share is a step of its own.          *)

MaxAttempts == 2     \* listen requests accepted in a session

\* what the recognizer hears, and what is typed into the entry
VoiceTexts == {Words(<<"delete", "folder", "a">>)}
TypedTexts == {Words(<<"yes">>)}

\* a thread at the top of process_voice_input. heard and early are history: a stop was
\* requested since the thread was started, and one was requested while it had not begun
\* to capture audio (before the first test of the event, or waiting for speech)
NewWorker == [pc |-> "beep", outcome |-> "-", text |-> <<>>, heard |-> FALSE, early |-> FALSE]

BeforeCapture == {"beep", "check", "listen"}
Finished(w) == w.pc = "done"

\* handle_listen_request without the test of listening_thread_active
handle_listen_request_always ==
    /\ ui_thread.pc = "idle"
    /\ Len(workers) < MaxAttempts
    /\ listening_thread_active' = TRUE
    /\ stop_requested' = FALSE
    /\ listen_stop_event' = FALSE
    /\ workers' = Append(workers, NewWorker)
    /\ listen_reply' = "started"
    /\ UNCHANGED <<shell, checks, os_name, exec, ui_thread>>

\* handle_listen_request that leaves the stop event and stop_requested as they are
handle_listen_request_stale ==
    /\ ui_thread.pc = "idle"
    /\ listening_thread_active \/ Len(workers) < MaxAttempts
    /\ IF listening_thread_active
       THEN /\ listen_reply' = "ignored"
            /\ UNCHANGED <<listening_thread_active, workers>>
       ELSE /\ listening_thread_active' = TRUE
            /\ workers' = Append(workers, NewWorker)
            /\ listen_reply' = "started"
    /\ UNCHANGED <<shell, checks, os_name, exec, ui_thread, stop_requested, listen_stop_event>>

\* VoiceShell.handle_listen_request (voice mode: args.text is off)
handle_listen_request ==
    /\ ui_thread.pc = "idle"
    /\ listening_thread_active \/ Len(workers) < MaxAttempts
    /\ IF listening_thread_active
       THEN /\ listen_reply' = "ignored"
            /\ UNCHANGED <<listening_thread_active, stop_requested, listen_stop_event, workers>>
       ELSE /\ listening_thread_active' = TRUE
            /\ stop_requested' = FALSE
            /\ listen_stop_event' = FALSE
            /\ workers' = Append(workers, NewWorker)
            /\ listen_reply' = "started"
    /\ UNCHANGED <<shell, checks, os_name, exec, ui_thread>>

\* VoiceShell.handle_stop_listening
handle_stop_listening ==
    /\ ui_thread.pc = "idle"
    /\ stop_requested' = TRUE
    /\ listen_stop_event' = TRUE
    /\ workers' = [i \in DOMAIN workers |->
                      IF Finished(workers[i]) THEN workers[i]
                      ELSE [workers[i] EXCEPT !.heard = TRUE,
                                              !.early = @ \/ workers[i].pc \in BeforeCapture]]
    /\ UNCHANGED <<shell, checks, os_name, exec, listening_thread_active, ui_thread, listen_reply>>

\* VoiceShell.handle_text_input: the UI thread enters process_command
handle_text_input ==
    /\ ui_thread.pc = "idle"
    /\ \E text \in TypedTexts : ui_thread' = [pc |-> "command", text |-> text]
    /\ UNCHANGED <<shell, checks, os_name, exec, listening_thread_active, stop_requested,
                   listen_stop_event, workers, listen_reply>>

\* ... and runs it to its end
typed_command ==
    /\ ui_thread.pc = "command"
    /\ process_command(ui_thread.text)
    /\ ui_thread' = UiIdle
    /\ UNCHANGED <<listening_thread_active, stop_requested, listen_stop_event, workers,
                   listen_reply>>

Goto(i, pc) == [workers EXCEPT ![i].pc = pc]
End(i, outcome) == [workers EXCEPT ![i].pc = "done", ![i].outcome = outcome]

\* one step of the i-th process_voice_input thread that leaves the shell alone
voice_step(i) ==
    LET w == workers[i]
    IN /\ w.pc \notin {"command", "done"}
       /\ CASE w.pc = "beep" ->            \* play_beep()
                 /\ workers' = Goto(i, "check")
                 /\ UNCHANGED <<listening_thread_active, stop_requested, listen_stop_event>>
            [] w.pc \in {"check", "timeout", "captured"} ->   \* listen_stop_event.is_set()
                 /\ workers' = Goto(i, IF listen_stop_event THEN "cancel_requested"
                                       ELSE CASE w.pc = "check" -> "listen"
                                              [] w.pc = "timeout" -> "no_speech"
                                              [] w.pc = "captured" -> "recognize")
                 /\ UNCHANGED <<listening_thread_active, stop_requested, listen_stop_event>>
            [] w.pc = "cancel_requested" ->     \* self.stop_requested = False
                 /\ stop_requested' = FALSE
                 /\ workers' = Goto(i, "cancel_active")
                 /\ UNCHANGED <<listening_thread_active, listen_stop_event>>
            [] w.pc = "cancel_active" ->        \* self.listening_thread_active = False
                 /\ listening_thread_active' = FALSE
                 /\ workers' = Goto(i, "cancel_event")
                 /\ UNCHANGED <<stop_requested, listen_stop_event>>
            [] w.pc = "cancel_event" ->         \* self.listen_stop_event.clear()
                 /\ listen_stop_event' = FALSE
                 /\ workers' = Goto(i, "cancel_ui")
                 /\ UNCHANGED <<listening_thread_active, stop_requested>>
            [] w.pc = "cancel_ui" ->            \* update_outcome("Listening cancelled")
                 /\ workers' = End(i, "cancelled")
                 /\ UNCHANGED <<listening_thread_active, stop_requested, listen_stop_event>>
            [] w.pc = "listen" ->               \* recognizer.listen(source, timeout=1, ...)
                 /\ \E r \in {"timeout", "listen_error", "captured"} : workers' = Goto(i, r)
                 /\ UNCHANGED <<listening_thread_active, stop_requested, listen_stop_event>>
            [] w.pc = "no_speech" ->
                 /\ listening_thread_active' = FALSE
                 /\ workers' = End(i, "no speech")
                 /\ UNCHANGED <<stop_requested, listen_stop_event>>
            [] w.pc = "listen_error" ->
                 /\ listening_thread_active' = FALSE
                 /\ workers' = End(i, "listen error")
                 /\ UNCHANGED <<stop_requested, listen_stop_event>>
            [] w.pc = "recognize" ->            \* recognize_google(audio)
                 /\ \/ \E text \in VoiceTexts :
                          workers' = [workers EXCEPT ![i].pc = "command", ![i].text = text]
                    \/ workers' = [workers EXCEPT ![i].pc = "finally",
                                                  ![i].outcome = "not understood"]
                 /\ UNCHANGED <<listening_thread_active, stop_requested, listen_stop_event>>
            [] w.pc = "finally" ->
                 /\ listening_thread_active' = FALSE
                 /\ workers' = Goto(i, "done")
                 /\ UNCHANGED <<stop_requested, listen_stop_event>>
       /\ UNCHANGED <<shell, checks, os_name, exec, ui_thread, listen_reply>>

\* self.process_command(text.lower()) on the i-th thread
voice_command(i) ==
    /\ i \in DOMAIN workers /\ workers[i].pc = "command"
    /\ process_command(workers[i].text)
    /\ workers' = [workers EXCEPT ![i].pc = "finally", ![i].outcome = "command"]
    /\ UNCHANGED <<listening_thread_active, stop_requested, listen_stop_event, ui_thread,
                   listen_reply>>

\* VoiceShell.process_voice_input, a step at a time
process_voice_input(i) ==
    /\ i \in DOMAIN workers
    /\ voice_step(i) \/ voice_command(i)

InitVoice ==
    /\ fs = (base :> "dir") @@ (SbA :> "dir") @@ Outside
    /\ cwd = base /\ sm = "READY" /\ pending = None /\ running = TRUE /\ last = Idle
    /\ os_name = "Linux"
    /\ ptext = <<>> /\ pres = None /\ rin = None /\ rout = None
    /\ ExecIdle /\ VoiceIdle

NextVoice ==
    \/ handle_listen_request
    \/ handle_stop_listening
    \/ handle_text_input
    \/ typed_command
    \/ \E i \in 1..MaxAttempts : process_voice_input(i)

SpecVoice == InitVoice /\ [][NextVoice]_vars

\* a thread inside process_command comes out of it: the step as the thread's position
\* tells it. process_command has no loop and waits for nothing, and in this session
\* its guards hold (CommandCanRun), so the step is enabled whenever the thread is there
worker_returns(i) ==
    /\ i \in DOMAIN workers /\ workers[i].pc = "command"
    /\ workers' = [workers EXCEPT ![i].pc = "finally", ![i].outcome = "command"]
    /\ UNCHANGED <<shell, checks, os_name, exec, listening_thread_active, stop_requested,
                   listen_stop_event, ui_thread, listen_reply>>
ui_returns ==
    /\ ui_thread.pc = "command"
    /\ ui_thread' = UiIdle
    /\ UNCHANGED <<shell, checks, os_name, exec, listening_thread_active, stop_requested,
                   listen_stop_event, workers, listen_reply>>
CommandCanRun ==
    /\ running
    /\ Cardinality(Entries(fs)) < MaxEntries

\* every started thread is scheduled, and so is the UI thread inside process_command
SpecVoiceFair ==
    /\ SpecVoice
    /\ \A i \in 1..MaxAttempts : WF_vars(i \in DOMAIN workers /\ voice_step(i))
    /\ \A i \in 1..MaxAttempts : WF_vars(worker_returns(i) \/ voice_command(i))
    /\ WF_vars(ui_returns \/ typed_command)

-----
(* C1: resolve_in_cwd raises or returns a path inside the sandbox.         *)

Range(q) == {q[i] : i \in 1..Len(q)}

\* C1: for every current directory inside the sandbox and every name (".."
\* components, absolute, through a link), resolve_in_cwd either raises or returns
\* a path whose normal form is the sandbox root or a descendant of it.
C1_ResolveStaysInside ==
    rout # None =>
        \/ ~rout.ok
        \/ IsPrefix(base, Resolve(rin.fs, rout.path))

\* a name with ".." that climbs out of a subdirectory and is accepted: it lands on the root
C1_Witness ==
    /\ rout # None /\ rout.ok
    /\ rin.cwd = SbA /\ rin.rel = <<"..", "/", "a", "/", "..">>
    /\ rout.path = base

\* an escape through the link is refused
C1_WitnessEscape ==
    /\ rout # None /\ ~rout.ok
    /\ LinkName \in Range(rin.rel) /\ ~IsAbs(rin.rel) /\ ".." \notin Range(rin.rel)

-----------------------------------------------------------------------------
(* C2 - C8: the current directory and the delete confirmation.             *)

\* the normal form of the entry a name written in directory c names
Named(f, c, name) == IF name \in {<<".">>, <<>>} THEN c ELSE Resolve(f, JoinPath(c, name))

\* C2: after any sequence of commands from startup the current directory is the
\* sandbox root or a descendant of it, and a step changes it only when the step is
\* a CD / go-back command that succeeded.
C2_CwdConfined ==
    /\ [](IsPrefix(base, cwd))
    /\ [][cwd' # cwd => /\ last'.route = "dispatch"
                        /\ last'.type = "CD"
                        /\ last'.res = "changed"]_vars

C2_Witness ==
    /\ last.type = "CD" /\ last.res = "changed"
    /\ cwd = SbA

\* the cases in which the claim says a CD fails
CdMustFail(f, c, path) ==
    \/ ~IsPrefix(base, Named(f, c, path))
    \/ Kind(f, Named(f, c, path)) # "dir"
    \/ path = <<"..">> /\ c = base

\* C3: a CD whose target escapes the sandbox, does not exist, is not a directory,
\* or is ".." asked for at the sandbox root leaves the current directory as it was.
C3_FailedCdKeepsCwd ==
    [][(/\ last'.route = "dispatch"
        /\ last'.type = "CD"
        /\ CdMustFail(fs, cwd, Intents[last'.text].path)) => cwd' = cwd]_vars

C3_Witness ==
    /\ last.type = "CD" /\ last.res = "not a directory"
    /\ Kind(fs, Named(fs, cwd, Intents[last.text].path)) = "file"

\* C4: dispatching a DELETE intent in READY removes nothing: it records the
\* pending confirmation (kind, name) and moves to AWAIT_CONFIRM_DELETE; the delete
\* primitive runs only in the step of an affirmative reply to a pending confirmation.
C4_DeleteIsDeferred ==
    /\ [][(/\ sm = "READY"
           /\ last'.route = "dispatch"
           /\ last'.type = "DELETE")
          => /\ fs' = fs
             /\ sm' = "AWAIT_CONFIRM_DELETE"
             /\ pending' # None
             /\ pending'.kind = Intents[last'.text].kind
             /\ pending'.name = Intents[last'.text].name]_vars
    /\ [][last'.op = "delete" => /\ sm = "AWAIT_CONFIRM_DELETE"
                                 /\ last'.route = "confirm_yes"]_vars

C4_Witness ==
    /\ sm = "AWAIT_CONFIRM_DELETE"
    /\ last.type = "DELETE"
    /\ pending = [kind |-> "file", name |-> <<"a">>]
    /\ Kind(fs, Named(fs, cwd, <<"a">>)) = "file"

\* C5: while a confirmation is pending the next text, whatever it says, is taken
\* as the answer and is not parsed or dispatched; after it the state is READY and
\* nothing is pending, on the affirmative and on the cancel branch.
C5_ReplyIsConsumed ==
    [][sm = "AWAIT_CONFIRM_DELETE"
       => /\ last'.route \in {"confirm_yes", "confirm_cancel"}
          /\ last'.type = "-"
          /\ last'.op \in {"delete", "none"}
          /\ running' = running /\ cwd' = cwd
          /\ sm' = "READY"
          /\ pending' = None]_vars

C5_Witness ==
    /\ last.route = "confirm_cancel"
    /\ Intents[last.text].type \in {"EXIT", "DELETE"}
    /\ sm = "READY" /\ pending = None /\ running

\* the replies that are "yes" or "y" once trimmed and lowercased
Affirmative == {Words(<<"yes">>), Words(<<"y">>), <<SP, "YES", SP>>}

\* C6: after a DELETE request a reply other than yes / y (trimmed, any case) leaves
\* the filesystem as it was: the named target is still there.
C6_CancelKeepsTarget ==
    [][(sm = "AWAIT_CONFIRM_DELETE" /\ last'.text \notin Affirmative)
       => /\ fs' = fs
          /\ Kind(fs', Named(fs, cwd, pending.name)) = Kind(fs, Named(fs, cwd, pending.name))]_vars

C6_Witness ==
    /\ last.route = "confirm_cancel"
    /\ last.text = Words(<<"yes", "please">>)
    /\ last.payload = [kind |-> "file", name |-> <<"a">>]
    /\ Kind(fs, Named(fs, cwd, <<"a">>)) = "file"

\* a name that is one plain component: no "/", not "." or ".."
PlainName(name) == Len(name) = 1 /\ name[1] \notin {".", "..", "/"}

\* C7: after MKFILE of a new name n in the current directory LIST contains n; after
\* "delete file n" and the reply yes, n is removed and LIST no longer contains n.
C7_RoundTrip ==
    /\ [][(/\ last'.route = "dispatch"
           /\ last'.type = "MKFILE"
           /\ PlainName(Intents[last'.text].name)
           /\ Append(cwd, Intents[last'.text].name[1]) \notin DOMAIN fs)
          => Intents[last'.text].name[1] \in list_files(fs', cwd')]_vars
    /\ [][(/\ last'.route = "confirm_yes"
           /\ pending.kind = "file"
           /\ PlainName(pending.name)
           /\ Kind(fs, Append(cwd, pending.name[1])) = "file")
          => pending.name[1] \notin list_files(fs', cwd')]_vars

\* C8: the confirmed delete is checked against the kind asked for: kind file on a
\* directory, kind folder on a regular file, or a missing entry removes nothing.
C8_DeleteIsTypeChecked ==
    [][(/\ last'.op = "delete"
        /\ \/ pending.kind = "file" /\ Kind(fs, Named(fs, cwd, pending.name)) = "dir"
           \/ pending.kind = "folder" /\ Kind(fs, Named(fs, cwd, pending.name)) = "file"
           \/ Kind(fs, Named(fs, cwd, pending.name)) = "none")
       => fs' = fs]_vars

C8_Witness ==
    /\ last.op = "delete" /\ last.res = "not a file"
    /\ last.payload.kind = "file"
    /\ Kind(fs, Named(fs, cwd, last.payload.name)) = "dir"

-----------------------------------------------------------------------------
(* C9, C10: the order of the parser's rules and the extent of a match.     *)

\* the canonical order: the kind of intent of each rule and the rule's pattern
Canon(type, re) == [type |-> type, re |-> re]
Canonical ==
    << Canon("HELP", PatHelp), Canon("EXIT", PatExit), Canon("LIST", PatList),
       Canon("MKDIR", PatMkdir), Canon("MKFILE", PatMkfile), Canon("DELETE", PatDelete),
       Canon("CD", PatCd), Canon("CD", PatBack), Canon("PWD", PatPwd),
       Canon("OPEN_APP", PatOpenApp), Canon("OPEN_FILE", PatOpen),
       Canon("SEARCH", PatSearch), Canon("RENAME", PatRename), Canon("HISTORY", PatHistory),
       Canon("COPY", PatCopy), Canon("MOVE", PatMove), Canon("READ", PatRead),
       Canon("APPEND", PatAppendDQ), Canon("APPEND", PatAppendSQ),
       Canon("GREP", PatGrepDQ), Canon("GREP", PatGrepSQ),
       Canon("SIZE", PatSize), Canon("TREE", PatTree), Canon("TOUCH", PatTouch),
       Canon("CLEAR_HISTORY", PatClearHistory), Canon("RECENTS", PatRecents),
       Canon("STATS", PatStats), Canon("OPEN_FILE", PatOpenFile) >>

\* the canonical rules whose pattern matches t, as the parser tests a pattern
Matching(t) == {k \in 1..Len(Canonical) : ReMatch(Canonical[k].re, t).ok}
Earliest(ks) == CHOOSE k \in ks : \A j \in ks : k <= j

\* C9: parse tries its rules in the canonical order and returns the intent of the
\* earliest rule that matches (UNKNOWN when none does); a text "move to <path>" that
\* the CD rule and the MOVE rule both match is a CD intent with that path.
\* Whether the winning match covers the whole text is the subject of C10.
C9_CanonicalOrder ==
    (pres # None /\ ptext # <<>>) =>
        LET t == Normalize(ptext)
        IN /\ IF Matching(t) = {} THEN pres.type = "UNKNOWN"
              ELSE pres.type = Canonical[Earliest(Matching(t))].type
           /\ (ReMatch(PatCd, t).ok /\ ReMatch(PatMove, t).ok)
                 => pres = [type |-> "CD", path |-> Strip(Group(ReMatch(PatCd, t), "path"))]

C9_Witness ==
    /\ pres # None
    /\ ptext = Words(<<"move", "to", "a", "to", "file">>)
    /\ ReMatch(PatMove, Normalize(ptext)).ok
    /\ pres = [type |-> "CD", path |-> Words(<<"a", "to", "file">>)]

\* the pattern r matches the whole of t
FullMatch(r, t) == ReMatch(Cat(<<r, Eol>>), t).ok

\* C10: the rule that wins matches the whole lowercased and trimmed text, never a
\* proper prefix of it; a text that starts with a list phrase and goes on with
\* further words is not a LIST intent.
C10_FullUtteranceOnly ==
    (pres # None /\ ptext # <<>>) =>
        LET t == Normalize(ptext)
            k == FirstMatchFrom(patterns, t, 1)
        IN /\ k # 0 => FullMatch(patterns[k].re, t)
           /\ pres.type = "LIST" => FullMatch(PatList, t)

-----------------------------------------------------------------------------
(* C11, C12: politeness fillers and "open file".                           *)

PleaseFiller == <<"please", SP>>
KindlyFiller == <<"would", SP, "you", SP, "kindly", SP>>

\* C11: a filler in front of a text that parses to an intent other than UNKNOWN
\* does not change the intent: "please " + u and "would you kindly " + u parse as u.
C11_FillersIgnored ==
    (pres # None /\ pres.type # "UNKNOWN") =>
        /\ parse(PleaseFiller \o ptext) = pres
        /\ parse(KindlyFiller \o ptext) = pres

OpenFileHead == <<"open", SP, "file", SP>>

\* a name made of the characters the patterns accept in a name, blanks only inside
IsName(n) ==
    /\ n # <<>>
    /\ \A i \in 1..Len(n) : ChunkClass(n[i]) \in {"word", "digits", "space", "slash", "bslash"}
    /\ ChunkClass(n[1]) # "space" /\ ChunkClass(n[Len(n)]) # "space"

\* C12: "open file <name>" is an OPEN_FILE intent whose name is <name>: the word
\* "file" is not part of the name.
C12_OpenFileName ==
    (/\ pres # None
     /\ Len(ptext) > Len(OpenFileHead)
     /\ SubSeq(ptext, 1, Len(OpenFileHead)) = OpenFileHead
     /\ IsName(SubSeq(ptext, Len(OpenFileHead) + 1, Len(ptext))))
    => pres = [type |-> "OPEN_FILE", name |-> SubSeq(ptext, Len(OpenFileHead) + 1, Len(ptext))]

-----------------------------------------------------------------------------
(* C13: launching applications.                                            *)

\* C13: open_app launches a process only for a name that is a key of the whitelist
\* of the platform it runs on, and the command line it launches is the whitelist's
\* value for that key, not the text it was given.
C13_OpenAppFailsClosed ==
    (result # None /\ call.op = "open_app") =>
        \/ result.spawn = NoSpawn
        \/ /\ Len(call.app) = 1
           /\ call.app[1] \in DOMAIN ALLOWED_APPS[call.os]
           /\ result.spawn = <<ALLOWED_APPS[call.os][call.app[1]]>>

C13_Witness ==
    /\ result # None /\ call.op = "open_app"
    /\ call.os = "Linux" /\ call.app = <<"calculator">>
    /\ result.spawn = << <<"gnome-calculator">> >>

C13_WitnessClosed ==
    /\ result # None /\ call.op = "open_app"
    /\ call.os = "Linux" /\ call.app = <<"notepad", SP, "&">>
    /\ result.spawn = NoSpawn

-----------------------------------------------------------------------------
(* C14: the dispatcher's branches.                                         *)

\* the executor function of each kind of intent that names one
ExecutorOf ==
    [LIST |-> "list_files", SEARCH |-> "search_files", MKDIR |-> "mkdir", MKFILE |-> "mkfile",
     RENAME |-> "rename_item", COPY |-> "copy_item", MOVE |-> "move_item", READ |-> "read_file",
     APPEND |-> "append_file", CD |-> "cd", PWD |-> "pwd", HISTORY |-> "read_history",
     RECENTS |-> "recent_files", CLEAR_HISTORY |-> "clear_history", STATS |-> "stats",
     SIZE |-> "item_size", TREE |-> "dir_tree", TOUCH |-> "touch_file", OPEN_FILE |-> "open_file",
     OPEN_APP |-> "open_app", GREP |-> "grep_files"]

\* C14: every intent the parser returns other than UNKNOWN is routed to its own
\* branch of handle: the executor function of its kind is the one called, and the
\* branch for unrecognized commands is not taken.
C14_EveryKindRouted ==
    (last.route = "dispatch" /\ last.type # "UNKNOWN") =>
        /\ last.op # "unrecognized"
        /\ last.type \in DOMAIN ExecutorOf => last.op = ExecutorOf[last.type]

-----------------------------------------------------------------------------
(* C15: the log entries of one call of process_command.                    *)

\* C15: every text handed to process_command, whatever it does with it (a command that
\* succeeds or fails, a DELETE request, a reply to a confirmation, an unknown
\* command), appends exactly one entry to the log.
C15_OneLogEntry == last.route # "none" => last.logged = 1

-----------------------------------------------------------------------------
(* C16: the text PWD returns.                                              *)

\* the components of a path below the sandbox root, written with "/" between them
RECURSIVE Slashes(_)
Slashes(p) == IF Len(p) <= 1 THEN p ELSE <<Head(p), "/">> \o Slashes(Tail(p))

\* C16: PWD returns the root marker "/" followed by the current directory's path
\* relative to the sandbox root, and the root marker alone at the sandbox root.
C16_PwdText ==
    (last.route = "dispatch" /\ last.type = "PWD") =>
        last.out = <<"/">> \o Slashes(SubSeq(cwd, Len(base) + 1, Len(cwd)))

-----------------------------------------------------------------------------
(* C17: COPY and what already exists.                                       *)

Copied == {"copied folder", "copied file"}

\* C17: a COPY whose destination, after the redirection into an existing directory,
\* already exists fails and leaves the destination and what it holds as they were;
\* a COPY that succeeds onto an existing directory puts the copy inside it under the
\* source's final name.
C17_CopyNeverOverwrites ==
    [][(call.op = "copy_item" /\ result = None /\ result' # None) =>
          LET s == resolve_in_cwd(fs, cwd, call.src)
              d == resolve_in_cwd(fs, cwd, call.dst)
          IN (s.ok /\ d.ok) =>
               LET dst == Resolve(fs, Redirect(fs, s.path, d.path))
                   inner == Append(Resolve(fs, d.path), s.path[Len(s.path)])
               IN /\ Kind(fs, dst) # "none" =>
                        /\ result'.res \notin Copied
                        /\ \A q \in Under(fs, dst) : q \in DOMAIN fs' /\ fs'[q] = fs[q]
                  /\ (IsDir(fs, d.path) /\ result'.res \in Copied) =>
                        /\ inner \in DOMAIN fs'
                        /\ Kind(fs', inner) = Kind(fs, s.path)
     ]_vars

-----------------------------------------------------------------------------
(* C18: RENAME.                                                             *)

\* C18: a RENAME changes the filesystem only when old exists and the path made of
\* old's parent and the new name is free and inside the sandbox; the entry and what is
\* below it then sit under that path, in the same parent, and nothing else changes.
\* When old is missing or the new name is taken the filesystem stays as it was and
\* the outcome is an error.
C18_RenameInPlace ==
    [][(call.op = "rename_item" /\ result = None /\ result' # None) =>
          LET s == resolve_in_cwd(fs, cwd, call.old)
              found == s.ok /\ Exists(fs, s.path)
              dst == JoinPath(Parent(s.path), call.new)
          IN /\ fs' # fs =>
                  /\ found /\ ~Exists(fs, dst) /\ inside_sandbox(fs, dst)
                  /\ Len(dst) = Len(s.path) /\ Parent(dst) = Parent(s.path)
                  /\ dst[Len(dst)] = call.new[1]
                  /\ DOMAIN fs' = (DOMAIN fs \ Under(fs, s.path))
                                      \cup {Rebase(q, s.path, dst) : q \in Under(fs, s.path)}
                  /\ \A q \in DOMAIN fs \ Under(fs, s.path) : fs'[q] = fs[q]
                  /\ \A q \in Under(fs, s.path) : fs'[Rebase(q, s.path, dst)] = fs[q]
             /\ (~found \/ Exists(fs, dst)) => (fs' = fs /\ result'.res # "renamed")
     ]_vars

C18_Witness ==
    /\ call.op = "rename_item" /\ result # None /\ result.res = "renamed"
    /\ call.old = <<"a">> /\ call.new = <<"c">>
    /\ SbA \notin DOMAIN fs
    /\ Append(base, "c") \in DOMAIN fs /\ Append(base, "c") \o <<"a">> \in DOMAIN fs

C18_WitnessTaken ==
    /\ call.op = "rename_item" /\ result # None /\ result.res = "already exists"
    /\ call.old = <<"a">> /\ call.new = <<"b">>
    /\ fs[SbA] = "x" /\ fs[SbB] = "y"

-----------------------------------------------------------------------------
(* C19: MKDIR and MKFILE.                                                   *)

\* C19: a MKDIR or MKFILE whose name exists already or resolves outside the sandbox
\* leaves the filesystem as it was; any other creates exactly one entry, empty, of
\* the kind asked for, under the current directory, and the listing of the current
\* directory then shows its name.
C19_CreateNeverOverwrites ==
    [][(last' # last /\ last'.route = "dispatch" /\ last'.type \in {"MKDIR", "MKFILE"}) =>
          LET name == Intents[last'.text].name
              r == resolve_in_cwd(fs, cwd, name)
              entry == cwd \o Parts(name)
          IN IF ~r.ok \/ ~inside_sandbox(fs, r.path) \/ Exists(fs, r.path)
             THEN fs' = fs
             ELSE /\ entry \notin DOMAIN fs
                  /\ Len(entry) = Len(cwd) + 1
                  /\ DOMAIN fs' = DOMAIN fs \cup {entry}
                  /\ fs'[entry] = (IF last'.type = "MKDIR" THEN "dir" ELSE "file")
                  /\ \A q \in DOMAIN fs : fs'[q] = fs[q]
                  /\ entry[Len(entry)] \in list_files(fs', cwd')
     ]_vars

-----------------------------------------------------------------------------
(* C20: HISTORY.                                                            *)

Smaller(a, b) == IF a < b THEN a ELSE b

\* C20: HISTORY with count N returns at most N rows, the most recent ones of the log
\* in the order they were logged; read right after a clear it returns none.
C20_HistoryWindow ==
    [][(call.op = "read_history" /\ result' # result /\ result'.res = "rows") =>
          LET n == Smaller(call.count, Len(log))
          IN /\ Len(result'.rows) <= call.count
             /\ result'.rows = SubSeq(log, Len(log) - n + 1, Len(log))
             /\ (result # None /\ result.res = "History cleared") => result'.rows = <<>>
     ]_vars

-----------------------------------------------------------------------------
(* C21 - C23, C30: the listening threads.                                   *)

\* an attempt is active from the start of its thread until the thread has given
\* listening_thread_active back
Active(w) == w.pc \notin {"cancel_event", "cancel_ui", "done"}
ActiveWorkers == {i \in DOMAIN workers : Active(workers[i])}

\* C21: at most one attempt is active at any time, and a listen request made while
\* one is active starts no thread: it is answered "ignored" and leaves nothing behind.
C21_OneAttempt ==
    /\ [](Cardinality(ActiveWorkers) <= 1)
    /\ [][(ActiveWorkers # {} /\ listen_reply' # listen_reply)
             => (listen_reply' = "ignored" /\ workers' = workers)]_vars
    /\ [][Len(workers') > Len(workers) => ActiveWorkers = {}]_vars

C21_Witness ==
    /\ listen_reply = "ignored"
    /\ ActiveWorkers # {}
    /\ stop_requested

\* C22: an attempt during which a stop was requested before it began to capture audio
\* ends with the outcome "cancelled" and never reaches process_command.
C22_StopCancels ==
    \A i \in DOMAIN workers :
        workers[i].early =>
            /\ workers[i].pc # "command"
            /\ workers[i].outcome \in {"-", "cancelled"}

\* the threads that are inside process_command
InCommand ==
    {i \in DOMAIN workers : workers[i].pc = "command"}
        \cup (IF ui_thread.pc = "command" THEN {0} ELSE {})

\* C23: commands form a single stream: at no time are two threads inside
\* process_command, a typed command submitted while a listening thread runs included.
C23_SingleStream == Cardinality(InCommand) <= 1

\* C30: every thread started by an accepted listen request comes to its end; once no
\* attempt is active listening_thread_active is off, whatever the path the thread took,
\* so the next request is accepted; and an attempt is cancelled only by a stop that
\* was requested after it started.
C30_AttemptsEnd ==
    /\ \A i \in 1..MaxAttempts :
          (i \in DOMAIN workers) ~> (i \in DOMAIN workers /\ workers[i].pc = "done")
    /\ [](ActiveWorkers = {} => ~listening_thread_active)
    /\ [](\A i \in DOMAIN workers :
              (workers[i].outcome = "cancelled" \/ workers[i].pc = "cancel_requested")
                  => workers[i].heard)

C30_Witness ==
    /\ Len(workers) = 2
    /\ workers[1].pc = "done" /\ workers[1].heard /\ workers[1].outcome = "listen error"
    /\ workers[2].pc = "done" /\ ~workers[2].heard /\ workers[2].outcome = "command"
    /\ ~listening_thread_active

-----------------------------------------------------------------------------
(* C24: links that lead out of the sandbox.                                 *)

\* C24: no scan and no read of a file reads or returns an entry whose resolved path
\* lies outside the sandbox root, links that point outside included.
C24_ScansStayInside ==
    (result # None /\ call.op \in ScanOps) =>
        /\ \A p \in result.read : IsPrefix(base, p)
        /\ \A p \in result.returned : IsPrefix(base, Resolve(fs, p))

-----------------------------------------------------------------------------
(* C25: spoken punctuation in the name of a file to open.                   *)

OpenNotesDotTxt == Words(<<"open", "notes", "dot", "txt">>)

\* C25: with a file 'notes.txt' in the current directory, the utterance
\* 'open notes dot txt' is an OPEN_FILE intent and open_file opens 'notes.txt'.
C25_SpokenDotOpens ==
    (last.route = "dispatch" /\ last.text = OpenNotesDotTxt /\ Kind(fs, SbNotes) = "file") =>
        /\ last.type = "OPEN_FILE"
        /\ last.op = "open_file" /\ last.res = "opened"
        /\ open_file(fs, cwd, Intents[last.text].name).spawn = <<SbNotes>>

-----------------------------------------------------------------------------
(* C26, C28: the sandbox root and the current directory under DELETE.       *)

\* C26: after any sequence of commands and replies the sandbox root is still an
\* existing directory at its original path.
C26_RootStays == Kind(fs, base) = "dir"

\* C28: after any sequence of commands and replies the current directory names a
\* directory that exists.
C28_CwdExists == Kind(fs, cwd) = "dir"

-----------------------------------------------------------------------------
(* C27: the applications of the help text.                                  *)

\* the utterances of the help text's section "Applications" that name an application
HelpApps == {Words(<<"open", "notepad">>), Words(<<"open", "calculator">>)}

\* C27: on either platform, 'open notepad' and 'open calculator' are OPEN_APP intents
\* whose application the executor's whitelist of that platform accepts and launches.
C27_HelpAppsLaunch ==
    (last.route = "dispatch" /\ last.text \in HelpApps) =>
        /\ last.type = "OPEN_APP" /\ last.op = "open_app"
        /\ open_app(os_name, Intents[last.text].app).res = "opened"
        /\ open_app(os_name, Intents[last.text].app).spawn # NoSpawn

-----------------------------------------------------------------------------
(* C29: what is reported against what was done.                             *)

\* C29: a success message is reported only when the change happened: "Created
\* folder/file" only if this command created the entry, "Changed directory to" only
\* if the current directory was changed to the target, "Opened" only if a process was
\* launched, "Successfully deleted" after 'yes' only if the entry was removed.
C29_SuccessMeansDone ==
    /\ last.said \in {"Created folder", "Created file"} => last.res = "created"
    /\ last.said = "Changed directory to" => last.res = "changed"
    /\ last.said = "Opened" => open_app(os_name, Intents[last.text].app).spawn # NoSpawn
    /\ last.said = DeletedOutcome => last.res = "deleted"

====
